---------------------------- MODULE Spec2Model ----------------------------
(***************************************************************************)
(* Aerator comparison engine of notebooks/aquaculture/aerator_comparer.py. *)
(*                                                                         *)
(* Floats are modelled in fixed point.  Units of the integer values:       *)
(*   sotr                      tenths of kg O2/h                           *)
(*   otr_t, tod, sae           hundredths                                  *)
(*   temperature               tenths of a degree Celsius                  *)
(*   farm_area_ha, power_hp, durability, hours_per_night, culture_days,    *)
(*   pond_depth_m, horizon, safety_margin (percent)     whole units        *)
(*   shrimp_density_kg_m3      ten-millionths                              *)
(*   cost, maintenance, shrimp_price, energy_cost and every currency       *)
(*   amount                    cents                                       *)
(*   discount_rate, inflation_rate   thousandths (inflation_rate a float   *)
(*                             that may be NaN)                            *)
(*   payback_years, cost_percent_revenue, aerators_per_ha, hp_per_ha,      *)
(*   total_power_hp            hundredths                                  *)
(*   cost_per_kg_o2            thousandths before replace_infinity,        *)
(*                             hundredths after it                         *)
(* f"{x:.2f}" is rounding to the nearest hundredth (half away from zero).  *)
(* A float that may be non-finite is a record [k, v]: k = "fin" with the   *)
(* fixed-point value v, k = "big" for the finite value v * 1e12,           *)
(* k = "inf" for v * infinity (v = 1 or -1), k = "nan".  annual_revenue,   *)
(* which exceeds 32 bits, is such a record with the sign in v and the      *)
(* magnitude (cents) as a wide natural number in m.                        *)
(***************************************************************************)
EXTENDS Integers, Sequences, FiniteSets, TLC

VARIABLES data, pc, result, calls

vars == <<data, pc, result, calls>>

-----------------------------------------------------------------------------
(* Arithmetic helpers *)

Abs(x) == IF x < 0 THEN -x ELSE x

Sign(x) == IF x > 0 THEN 1 ELSE IF x < 0 THEN -1 ELSE 0

Max2(a, b) == IF a >= b THEN a ELSE b

Min2(a, b) == IF a <= b THEN a ELSE b

\* p / q rounded to the nearest integer, halves away from zero (q # 0)
RoundDiv(p, q) ==
    LET n == IF q < 0 THEN -p ELSE p
        d == Abs(q)
        r == Abs(n) % d
    IN  Sign(n) * ((Abs(n) \div d) + (IF r >= d - r THEN 1 ELSE 0))

-----------------------------------------------------------------------------
(* Exact arithmetic on numbers wider than 32 bits *)

\* limbs of the wide natural numbers: a number is the sequence of its
\* base-BASE digits, least significant first, without a high zero digit
BASE == 1000

\* the one element of a singleton set: TheOnly({F(x) : x \in {e}}) is F(e)
\* with e computed once
TheOnly(S) == CHOOSE x \in S : TRUE

RECURSIVE NatOf(_)
NatOf(n) == IF n = 0 THEN <<>> ELSE <<n % BASE>> \o NatOf(n \div BASE)

RECURSIVE NatToInt(_)
NatToInt(x) == IF x = <<>> THEN 0 ELSE Head(x) + BASE * NatToInt(Tail(x))

RECURSIVE NatTrim(_)
NatTrim(x) ==
    IF x = <<>> THEN <<>>
    ELSE IF x[Len(x)] = 0 THEN NatTrim(SubSeq(x, 1, Len(x) - 1))
    ELSE x

RECURSIVE NatAddC(_, _, _)
NatAddC(x, y, c) ==
    IF x = <<>> /\ y = <<>> THEN (IF c = 0 THEN <<>> ELSE <<c>>)
    ELSE LET s == (IF x = <<>> THEN 0 ELSE Head(x))
                    + (IF y = <<>> THEN 0 ELSE Head(y)) + c
         IN  <<s % BASE>> \o NatAddC(IF x = <<>> THEN <<>> ELSE Tail(x),
                                     IF y = <<>> THEN <<>> ELSE Tail(y),
                                     s \div BASE)

NatAdd(x, y) == NatAddC(x, y, 0)

RECURSIVE NatSubB(_, _, _)
NatSubB(x, y, b) ==
    IF x = <<>> THEN <<>>
    ELSE LET s == Head(x) - (IF y = <<>> THEN 0 ELSE Head(y)) - b
         IN  <<s % BASE>> \o NatSubB(Tail(x),
                                     IF y = <<>> THEN <<>> ELSE Tail(y),
                                     IF s < 0 THEN 1 ELSE 0)

\* x - y for x >= y
NatSub(x, y) == NatTrim(NatSubB(x, y, 0))

RECURSIVE NatCmpFrom(_, _, _)
NatCmpFrom(x, y, i) ==
    IF i = 0 THEN 0
    ELSE IF x[i] # y[i] THEN (IF x[i] < y[i] THEN -1 ELSE 1)
    ELSE NatCmpFrom(x, y, i - 1)

\* -1, 0 or 1 as x < y, x = y or x > y
NatCmp(x, y) ==
    IF Len(x) # Len(y) THEN (IF Len(x) < Len(y) THEN -1 ELSE 1)
    ELSE NatCmpFrom(x, y, Len(x))

RECURSIVE NatMulLimbC(_, _, _)
NatMulLimbC(x, d, c) ==
    IF x = <<>> THEN (IF c = 0 THEN <<>> ELSE <<c>>)
    ELSE LET p == Head(x) * d + c
         IN  <<p % BASE>> \o NatMulLimbC(Tail(x), d, p \div BASE)

\* x * d for one digit d
NatMulLimb(x, d) == IF d = 0 THEN <<>> ELSE NatMulLimbC(x, d, 0)

RECURSIVE NatMul(_, _)
NatMul(x, y) ==
    IF x = <<>> \/ y = <<>> THEN <<>>
    ELSE CHOOSE p \in {NatAdd(NatMulLimb(x, Head(y)), <<0>> \o rest) :
                        rest \in {NatMul(x, Tail(y))}} : TRUE

\* the largest digit d in lo..hi with b * d <= cur
RECURSIVE QuotSearch(_, _, _, _)
QuotSearch(cur, b, lo, hi) ==
    IF lo >= hi THEN lo
    ELSE LET mid == (lo + hi + 1) \div 2
         IN  IF NatCmp(NatMulLimb(b, mid), cur) <= 0
             THEN QuotSearch(cur, b, mid, hi)
             ELSE QuotSearch(cur, b, lo, mid - 1)

\* the digit cur \div b for cur < b * BASE: searched between the bounds
\* that the leading digits of cur and b give
QuotLimb(cur, b) ==
    IF NatCmp(cur, b) < 0 THEN 0
    ELSE IF Len(b) = 1 THEN NatToInt(cur) \div b[1]
    ELSE LET lead == NatToInt(SubSeq(cur, Len(b) - 1, Len(cur)))
             div == b[Len(b)] * BASE + b[Len(b) - 1]
         IN  QuotSearch(cur, b, lead \div (div + 1),
                        Min2(BASE - 1, lead \div div))

\* one step of the long division by b: the digit d is put before the
\* quotient q, and cur - b * d is the remainder
NatDivDigit(q, cur, b, d) ==
    [q |-> NatTrim(<<d>> \o q), r |-> NatSub(cur, NatMulLimb(b, d))]

\* the step that brings down the digit h after the quotient and the
\* remainder of rest
NatDivStep(h, rest, b) ==
    CHOOSE dm \in {NatDivDigit(rest.q, cur, b, QuotLimb(cur, b)) :
                   cur \in {NatTrim(<<h>> \o rest.r)}} : TRUE

\* the long division of a by b, from the most significant digit of a down
RECURSIVE NatLongDiv(_, _)
NatLongDiv(a, b) ==
    IF a = <<>> THEN [q |-> <<>>, r |-> <<>>]
    ELSE CHOOSE dm \in {NatDivStep(Head(a), rest, b) :
                        rest \in {NatLongDiv(Tail(a), b)}} : TRUE

\* quotient q and remainder r of a / b (b # 0)
NatDivMod(a, b) ==
    CHOOSE dm \in {NatLongDiv(x, y) : x \in {a}, y \in {b}} : TRUE

\* n / d rounded to the nearest natural number, halves upwards
NatRoundDiv(n, d) ==
    LET dm == NatDivMod(n, d)
    IN  IF NatCmp(NatAdd(dm.r, dm.r), d) >= 0
        THEN NatAdd(dm.q, <<1>>) ELSE dm.q

\* the product of the absolute values of the integers of ns
RECURSIVE NatProd(_)
NatProd(ns) ==
    IF ns = <<>> THEN <<1>>
    ELSE CHOOSE p \in {NatMul(rest, NatOf(Abs(Head(ns)))) :
                        rest \in {NatProd(Tail(ns))}} : TRUE

RECURSIVE SignProd(_)
SignProd(ns) == IF ns = <<>> THEN 1 ELSE Sign(Head(ns)) * SignProd(Tail(ns))

\* (product of ns) / (product of ds) rounded to the nearest integer, halves
\* away from zero, in exact arithmetic (no factor of ds is 0)
RoundRatio(ns, ds) ==
    SignProd(ns) * SignProd(ds)
      * NatToInt(NatRoundDiv(NatProd(ns), NatProd(ds)))

\* math.ceil((product of ns) / (product of ds))
CeilRatio(ns, ds) ==
    LET dm == NatDivMod(NatProd(ns), NatProd(ds))
    IN  IF SignProd(ns) * SignProd(ds) >= 0
        THEN NatToInt(dm.q) + (IF dm.r = <<>> THEN 0 ELSE 1)
        ELSE -NatToInt(dm.q)

\* signed wide numbers: sign s (-1, 0, 1) and magnitude m
Wide(s, m) == [s |-> IF m = <<>> THEN 0 ELSE s, m |-> m]

WideOf(ns) == Wide(SignProd(ns), NatProd(ns))

WideAdd(a, b) ==
    IF a.s = 0 THEN b
    ELSE IF b.s = 0 THEN a
    ELSE IF a.s = b.s THEN Wide(a.s, NatAdd(a.m, b.m))
    ELSE IF NatCmp(a.m, b.m) >= 0 THEN Wide(a.s, NatSub(a.m, b.m))
    ELSE Wide(b.s, NatSub(b.m, a.m))

\* a / (product of ds) rounded to the nearest integer, halves away from zero
WideRound(a, ds) ==
    a.s * SignProd(ds) * NatToInt(NatRoundDiv(a.m, NatProd(ds)))

-----------------------------------------------------------------------------
(* Floats that may be non-finite *)

Fin(n) == [k |-> "fin", v |-> n]

PosInf == [k |-> "inf", v |-> 1]

NegInf == [k |-> "inf", v |-> -1]

NaN == [k |-> "nan", v |-> 0]

Big(s) == [k |-> "big", v |-> s]

\* the finite float of the wide number w, and the non-finite float x, in
\* the form annual_revenue has
FinWide(w) == [k |-> "fin", v |-> w.s, m |-> w.m]

Widened(x) == [k |-> x.k, v |-> x.v, m |-> <<>>]

\* math.isinf(x) or math.isnan(x) is false
IsFinite(x) == x.k \in {"fin", "big"}

\* x > 0 as Python evaluates it (false for NaN)
GtZero(x) == \/ x.k = "fin" /\ x.v > 0
             \/ x.k \in {"big", "inf"} /\ x.v > 0

-----------------------------------------------------------------------------
(* Values of the input document *)

\* t: the kind of value; v: the number; s: the string
Num(n) == [t |-> "num", v |-> n, s |-> ""]

Str(x) == [t |-> "str", v |-> 0, s |-> x]

Missing == [t |-> "missing", v |-> 0, s |-> ""]

InfValue == [t |-> "inf", v |-> 1, s |-> ""]

NanValue == [t |-> "nan", v |-> 0, s |-> ""]

\* dict.get(key, default)
Get(d, key, default) == IF d[key].t = "missing" THEN default ELSE d[key]

\* float(x) raises ValueError on a string that is no number
FloatRaises(x) == x.t = "str"

\* float(x) of a value float() accepts
Float(x) ==
    CASE x.t = "num" -> Fin(x.v)
      [] x.t = "inf" -> [k |-> "inf", v |-> x.v]
      [] x.t = "nan" -> NaN

-----------------------------------------------------------------------------
(* Constants of aerator_comparer.py *)

\* THETA ** (adjusted_temp - 20) in hundred-millionths, THETA = 1.024, at
\* the temperatures (tenths of a degree) the model uses
ThetaPow(adjusted_temp) ==
    CASE adjusted_temp = -200 -> 38725919
      [] adjusted_temp = 0 -> 62230153
      [] adjusted_temp = 200 -> 100000000
      [] adjusted_temp = 300 -> 126765060
      [] adjusted_temp = 315 -> 131355875
      [] adjusted_temp = 1000 -> 666801443

\* HP_TO_KW = 0.745699872, in billionths
HP_TO_KW == 745699872

\* farm_area_ha above which process_aerator fixes the unit count
LARGE_AREA_HA == 1000000000

\* the unit count process_aerator uses for such a farm
LARGE_AREA_UNITS == 10000000

\* shrimp_price (cents) above which calculate_annual_revenue returns 1e12
EXTREME_PRICE == 10000

\* cash flow (cents) above which calculate_npv answers a single cash flow
\* with the constant NPV_SINGLE
NPV_SINGLE_THRESHOLD == 10000000

NPV_SINGLE == 46842389

-----------------------------------------------------------------------------
(* Physical conversion and unit sizing *)

\* calculate_otr_t falling with sotr
calculate_otr_t_falling(sotr, temperature) ==
    LET adjusted_temp == Max2(-200, Min2(1000, temperature))
    IN  RoundRatio(<<50 - sotr, 5, ThetaPow(adjusted_temp)>>, <<100000000>>)

calculate_otr_t(sotr, temperature) ==
    LET adjusted_temp == Max2(-200, Min2(1000, temperature))
    IN  RoundRatio(<<sotr, 5, ThetaPow(adjusted_temp)>>, <<100000000>>)

\* calculate_annual_revenue with the clamp of extreme prices and areas
\* ahead of the test of culture_days
calculate_annual_revenue_clamp_first(farm) ==
    IF farm.shrimp_price > EXTREME_PRICE \/ farm.farm_area_ha > LARGE_AREA_HA
    THEN [raised |-> FALSE, value |-> Widened(Big(1))]
    ELSE [raised |-> farm.culture_days <= 0, value |-> Widened(NaN)]

\* [raised, value]: ValueError when culture_days <= 0
calculate_annual_revenue(farm) ==
    IF farm.culture_days <= 0
    THEN [raised |-> TRUE, value |-> Widened(NaN)]
    ELSE LET d == farm.shrimp_density_kg_m3
             rest == Sign(farm.pond_depth_m) * Sign(farm.farm_area_ha)
                       * Sign(farm.shrimp_price)
             revenue_per_cycle ==
                 <<d.v, farm.pond_depth_m, farm.farm_area_ha,
                   farm.shrimp_price>>
             annual_revenue ==
                 CASE d.k = "fin" ->
                        FinWide(Wide(SignProd(revenue_per_cycle),
                                     NatRoundDiv(
                                         NatProd(revenue_per_cycle \o <<365>>),
                                         NatProd(<<1000, farm.culture_days>>))))
                   [] d.k = "inf" ->
                        IF rest = 0 THEN Widened(NaN)
                        ELSE Widened([k |-> "inf", v |-> d.v * rest])
                   [] d.k = "nan" -> Widened(NaN)
         IN  IF farm.shrimp_price > EXTREME_PRICE
                \/ farm.farm_area_ha > LARGE_AREA_HA
             THEN [raised |-> FALSE, value |-> Widened(Big(1))]
             ELSE [raised |-> FALSE, value |-> annual_revenue]

calculate_sae(sotr, power_hp) ==
    IF power_hp > 0
    THEN RoundRatio(<<sotr, 10, 1000000000>>, <<power_hp, HP_TO_KW>>)
    ELSE 0

\* total_annual_cost / annual_revenue * 100 to two decimals, 0 unless
\* annual_revenue > 0
cost_percent(total_annual_cost, annual_revenue) ==
    IF ~GtZero(annual_revenue) THEN 0
    ELSE IF annual_revenue.k = "fin"
         THEN Sign(total_annual_cost)
                * NatToInt(NatRoundDiv(NatProd(<<total_annual_cost, 10000>>),
                                       annual_revenue.m))
         ELSE IF annual_revenue.k = "big"
              THEN RoundRatio(<<total_annual_cost>>, <<100000, 100000>>)
              ELSE 0

\* required_units without the otr_t > 0 guard's sign test
required_units_unguarded(farm, financial, otr_t) ==
    IF farm.farm_area_ha > LARGE_AREA_HA
    THEN LARGE_AREA_UNITS
    ELSE IF otr_t # 0
         THEN CeilRatio(<<farm.tod, farm.farm_area_ha,
                          100 + financial.safety_margin>>,
                        <<100, Abs(otr_t)>>)
         ELSE 0

\* num_aerators: math.ceil(required_otr_t / otr_t), where required_otr_t is
\* tod * farm_area_ha * (1 + safety_margin / 100)
required_units(farm, financial, otr_t) ==
    IF farm.farm_area_ha > LARGE_AREA_HA
    THEN LARGE_AREA_UNITS
    ELSE IF otr_t > 0
         THEN CeilRatio(<<farm.tod, farm.farm_area_ha,
                          100 + financial.safety_margin>>,
                        <<100, otr_t>>)
         ELSE 0

process_aerator(aerator, farm, financial, annual_revenue) ==
    LET otr_t == calculate_otr_t(aerator.sotr, financial.temperature)
        num_aerators == required_units(farm, financial, otr_t)
        total_power_hp == num_aerators * aerator.power_hp * 100
        total_initial_cost == num_aerators * aerator.cost
        aerators_per_ha ==
            IF farm.farm_area_ha > 0
            THEN RoundDiv(num_aerators * 100, farm.farm_area_ha)
            ELSE 0
        hp_per_ha ==
            IF farm.farm_area_ha > 0
            THEN RoundDiv(total_power_hp, farm.farm_area_ha)
            ELSE 0
        sae == calculate_sae(aerator.sotr, aerator.power_hp)
        operating_hours == financial.hours_per_night * 365
        annual_energy_cost ==
            RoundRatio(<<aerator.power_hp, HP_TO_KW, financial.energy_cost,
                         operating_hours, num_aerators>>, <<1000000000>>)
        annual_maintenance_cost == aerator.maintenance * num_aerators
        annual_replacement_cost ==
            IF aerator.durability > 0
            THEN RoundRatio(<<num_aerators, aerator.cost>>,
                            <<aerator.durability>>)
            ELSE 0
        total_annual_cost ==
            annual_energy_cost + annual_maintenance_cost
              + annual_replacement_cost
        cost_per_kg_o2 ==
            IF sae > 0 THEN RoundDiv(financial.energy_cost * 1000, sae) ELSE 0
    IN  [aerator |-> aerator,
         num_aerators |-> num_aerators,
         total_power_hp |-> total_power_hp,
         total_initial_cost |-> total_initial_cost,
         annual_energy_cost |-> annual_energy_cost,
         annual_maintenance_cost |-> annual_maintenance_cost,
         annual_replacement_cost |-> annual_replacement_cost,
         total_annual_cost |-> total_annual_cost,
         cost_percent_revenue |-> cost_percent(total_annual_cost, annual_revenue),
         aerators_per_ha |-> aerators_per_ha,
         hp_per_ha |-> hp_per_ha,
         sae |-> sae,
         cost_per_kg_o2 |-> cost_per_kg_o2]

-----------------------------------------------------------------------------
(* Financial metrics *)

\* the sequence of n copies of x
Repeat(x, n) == [j \in 1..n |-> x]

\* [annual_saving * (1 + inflation_rate) ** t to two decimals
\*    for t in range(horizon)]
cash_flows_of(annual_saving, inflation_rate, horizon) ==
    [i \in 1..Max2(horizon, 0) |->
        RoundRatio(<<annual_saving>> \o Repeat(1000 + inflation_rate, i - 1),
                   Repeat(1000, i - 1))]

RECURSIVE SumSeq(_)
SumSeq(s) == IF s = <<>> THEN 0 ELSE Head(s) + SumSeq(Tail(s))

\* sum(cf / (1 + real_discount_rate) ** i) over the positions lo..hi, times
\* q ** n, where 1 / (1 + real_discount_rate) = p / q and n = len(cash_flows);
\* the terms are exact, so the sum is added up by halves
RECURSIVE DiscountedSum(_, _, _, _, _)
DiscountedSum(cash_flows, p, q, lo, hi) ==
    IF lo > hi THEN Wide(0, <<>>)
    ELSE IF lo = hi
    THEN WideOf(<<cash_flows[lo]>> \o Repeat(p, lo)
                  \o Repeat(q, Len(cash_flows) - lo))
    ELSE CHOOSE s \in
             {WideAdd(low, DiscountedSum(cash_flows, p, q,
                                         (lo + hi) \div 2 + 1, hi)) :
              low \in {DiscountedSum(cash_flows, p, q, lo,
                                     (lo + hi) \div 2)}} : TRUE

\* [raised, value]: ZeroDivisionError when 1 + inflation_rate = 0, or when
\* 1 + real_discount_rate = 0 and there is a cash flow to discount
calculate_npv(cash_flows, discount_rate, inflation_rate) ==
    IF Len(cash_flows) = 1 /\ cash_flows[1] > NPV_SINGLE_THRESHOLD
    THEN [raised |-> FALSE, value |-> NPV_SINGLE]
    ELSE IF inflation_rate = discount_rate
    THEN [raised |-> FALSE, value |-> SumSeq(cash_flows)]
    ELSE IF 1000 + inflation_rate = 0
    THEN [raised |-> TRUE, value |-> 0]
    ELSE IF 1000 + discount_rate = 0 /\ Len(cash_flows) > 0
    THEN [raised |-> TRUE, value |-> 0]
    ELSE LET p == 1000 + inflation_rate
             q == 1000 + discount_rate
         IN  [raised |-> FALSE,
              value |-> IF Len(cash_flows) = 0 THEN 0
                        ELSE WideRound(DiscountedSum(cash_flows, p, q, 1,
                                                     Len(cash_flows)),
                                       Repeat(q, Len(cash_flows)))]

\* calculate_payback with the quotient truncated instead of rounded
calculate_payback_truncated(initial_investment, annual_saving) ==
    IF annual_saving > 0
    THEN Fin((initial_investment * 100) \div annual_saving)
    ELSE PosInf

calculate_payback(initial_investment, annual_saving) ==
    IF annual_saving > 0
    THEN Fin(RoundRatio(<<initial_investment, 100>>, <<annual_saving>>))
    ELSE PosInf

\* sotr_ratio is the pair <<numerator, denominator>>, denominator > 0
calculate_relative_payback(initial_investment, annual_saving, sotr_ratio) ==
    IF annual_saving <= 0 THEN PosInf
    ELSE IF initial_investment < 0
         THEN IF sotr_ratio[1] <= 0 THEN Fin(1)
              ELSE Fin(RoundDiv(sotr_ratio[2], sotr_ratio[1]))
         ELSE Fin(RoundRatio(<<initial_investment, 100>>, <<annual_saving>>))

\* baseline_cost: Optional[float], hundredths when given
NoBaseline == [given |-> FALSE, v |-> 0]

BaselineCost(v) == [given |-> TRUE, v |-> v]

\* sum(cash_flows) as a wide number
RECURSIVE WideSum(_)
WideSum(s) ==
    IF s = <<>> THEN Wide(0, <<>>)
    ELSE WideAdd(WideOf(<<Head(s)>>), WideSum(Tail(s)))

\* float(f"{min(100 * sotr_ratio, 1000):.2f}"), in hundredths of a percent
saturating_irr(sotr_ratio) ==
    Min2(RoundRatio(<<10000, sotr_ratio[1]>>, <<sotr_ratio[2]>>), 100000)

\* calculate_irr up to the call of the root finder.  path "return": value
\* (hundredths of a percent) is returned before any root is sought; path
\* "solve": the root finder is run against initial_investment and the cash
\* flows cf * scale[1] / scale[2], scale the pair <<product of the
\* numerators, product of the denominators>> as factor lists
calculate_irr(initial_investment, cash_flows, sotr_ratio, baseline_cost) ==
    IF WideSum(cash_flows).s <= 0
    THEN [path |-> "return", value |-> -10000]
    ELSE IF initial_investment <= 0
    THEN IF baseline_cost.given /\ baseline_cost.v > 0
         THEN IF cash_flows[1] <= 0
              THEN [path |-> "return", value |-> 0]
              ELSE [path |-> "solve",
                    initial_investment |-> baseline_cost.v,
                    cash_flows |-> cash_flows,
                    scale |-> << <<baseline_cost.v, sotr_ratio[1]>>,
                                 <<cash_flows[1], sotr_ratio[2]>> >>]
         ELSE [path |-> "return", value |-> saturating_irr(sotr_ratio)]
    ELSE [path |-> "solve",
          initial_investment |-> initial_investment,
          cash_flows |-> cash_flows,
          scale |-> << <<1>>, <<1>> >>]

\* calculate_roi: percent, in hundredths
calculate_roi(annual_saving, initial_investment) ==
    IF initial_investment <= 0 THEN 0
    ELSE RoundRatio(<<annual_saving, 10000>>, <<initial_investment>>)

\* calculate_relative_roi: the rounding of min(roi, 100 * sotr_ratio) is the
\* smaller of the two roundings
calculate_relative_roi(annual_saving, initial_investment, baseline_cost, sotr_ratio) ==
    LET cap == RoundRatio(<<10000, sotr_ratio[1]>>, <<sotr_ratio[2]>>)
        roi ==
            IF initial_investment = 0
            THEN RoundRatio(<<annual_saving, 10000, sotr_ratio[1]>>,
                            <<baseline_cost.v, sotr_ratio[2]>>)
            ELSE IF initial_investment < 0
            THEN RoundRatio(<<annual_saving, 10000, sotr_ratio[1],
                              baseline_cost.v + Abs(initial_investment)>>,
                            <<baseline_cost.v, baseline_cost.v,
                              sotr_ratio[2]>>)
            ELSE RoundRatio(<<annual_saving, 10000>>, <<initial_investment>>)
    IN  IF annual_saving <= 0 \/ ~baseline_cost.given \/ baseline_cost.v <= 0
        THEN 0
        ELSE Min2(roi, cap)

\* calculate_profitability_k, in hundredths
calculate_profitability_k(npv_savings, additional_cost) ==
    IF additional_cost <= 0 THEN 0
    ELSE RoundRatio(<<npv_savings, 100>>, <<additional_cost>>)

\* calculate_relative_k with the factor for a positive additional cost
\* turned over: (baseline_cost + additional_cost) / baseline_cost
calculate_relative_k_growing(npv_savings, additional_cost, sotr_ratio, baseline_cost) ==
    IF npv_savings <= 0 \/ ~baseline_cost.given \/ baseline_cost.v <= 0
    THEN 0
    ELSE RoundRatio(<<npv_savings, 100, sotr_ratio[1],
                      baseline_cost.v + Abs(additional_cost)>>,
                    <<baseline_cost.v, baseline_cost.v, sotr_ratio[2]>>)

\* calculate_relative_k, in hundredths: k_base * baseline_cost /
\* (baseline_cost + additional_cost) for a positive additional cost,
\* k_base * (1 + |additional_cost| / baseline_cost) for a negative one
calculate_relative_k(npv_savings, additional_cost, sotr_ratio, baseline_cost) ==
    IF npv_savings <= 0 \/ ~baseline_cost.given \/ baseline_cost.v <= 0
    THEN 0
    ELSE IF additional_cost > 0
    THEN RoundRatio(<<npv_savings, 100, sotr_ratio[1]>>,
                    <<baseline_cost.v + additional_cost, sotr_ratio[2]>>)
    ELSE IF additional_cost < 0
    THEN RoundRatio(<<npv_savings, 100, sotr_ratio[1],
                      baseline_cost.v + Abs(additional_cost)>>,
                    <<baseline_cost.v, baseline_cost.v, sotr_ratio[2]>>)
    ELSE RoundRatio(<<npv_savings, 100, sotr_ratio[1]>>,
                    <<baseline_cost.v, sotr_ratio[2]>>)

-----------------------------------------------------------------------------
(* Output normalisation *)

\* replace_infinity on a float of hundredths
replace_infinity(obj) ==
    CASE obj.k = "inf" /\ obj.v > 0 -> Big(1)
      [] obj.k = "inf" /\ obj.v < 0 -> Big(-1)
      [] obj.k = "nan" -> Fin(0)
      [] OTHER -> obj

\* replace_infinity on cost_per_kg_o2, a float of thousandths: rounded to
\* two decimals
replace_infinity_milli(x) == RoundDiv(x, 10)

-----------------------------------------------------------------------------
(* compare_aerators *)

ErrorDoc(message, extra) ==
    [kind |-> "error", error |-> message, extra |-> extra]

Raised(exception) == [kind |-> "raised", exc |-> exception]

NoCalls == [winner |-> 0, least_efficient |-> 0, branch |-> <<>>]

\* any_zero with all() in place of any()
RECURSIVE all_zero(_, _, _)
all_zero(aerators_data, key, i) ==
    IF i > Len(aerators_data) THEN "true"
    ELSE LET x == Get(aerators_data[i], key, Num(1))
         IN  IF FloatRaises(x) THEN "raise"
             ELSE IF Float(x) # Fin(0) THEN "false"
             ELSE all_zero(aerators_data, key, i + 1)

\* any(float(a.get(key, 1)) == 0 for a in aerators_data), from entry i:
\* "raise" when float() raises before a zero is found
RECURSIVE any_zero(_, _, _)
any_zero(aerators_data, key, i) ==
    IF i > Len(aerators_data) THEN "false"
    ELSE LET x == Get(aerators_data[i], key, Num(1))
         IN  IF FloatRaises(x) THEN "raise"
             ELSE IF Float(x) = Fin(0) THEN "true"
             ELSE any_zero(aerators_data, key, i + 1)

FarmInput(farm_data) ==
    [tod |-> Float(Get(farm_data, "tod", Num(544377))).v,
     farm_area_ha |-> Float(Get(farm_data, "farm_area_ha", Num(1000))).v,
     shrimp_price |-> Float(Get(farm_data, "shrimp_price", Num(500))).v,
     culture_days |-> Float(Get(farm_data, "culture_days", Num(120))).v,
     shrimp_density_kg_m3 |->
         Float(Get(farm_data, "shrimp_density_kg_m3", Num(10000000))),
     pond_depth_m |-> Float(Get(farm_data, "pond_depth_m", Num(1))).v]

FinancialInput(financial_data) ==
    [energy_cost |-> Float(Get(financial_data, "energy_cost", Num(5))).v,
     hours_per_night |->
         Float(Get(financial_data, "hours_per_night", Num(8))).v,
     discount_rate |->
         Float(Get(financial_data, "discount_rate", Num(100))).v,
     inflation_rate |->
         Float(Get(financial_data, "inflation_rate", Num(25))),
     horizon |-> Float(Get(financial_data, "horizon", Num(9))).v,
     safety_margin |-> Float(Get(financial_data, "safety_margin", Num(0))).v,
     temperature |-> Float(Get(financial_data, "temperature", Num(315))).v]

Aerator(a) ==
    [name |-> IF a.name.t = "missing" THEN "Unknown" ELSE a.name.s,
     sotr |-> Float(a.sotr).v,
     power_hp |-> Float(a.power_hp).v,
     cost |-> Float(a.cost).v,
     durability |-> Float(Get(a, "durability", Num(1))).v,
     maintenance |-> Float(Get(a, "maintenance", Num(0))).v]

\* too_few with the bound off by one
too_few_off_by_one(aerators_data) == Len(aerators_data) < 1

\* len(aerators_data) < 2
too_few(aerators_data) == Len(aerators_data) < 2

\* required_fields in another order
required_fields_reordered == <<"cost", "power_hp", "sotr">>

required_fields == <<"sotr", "power_hp", "cost">>

\* the first of required_fields (from position n) that is not in a, "" when
\* a has them all
RECURSIVE first_missing(_, _)
first_missing(a, n) ==
    IF n > Len(required_fields) THEN ""
    ELSE IF a[required_fields[n]].t = "missing" THEN required_fields[n]
    ELSE first_missing(a, n + 1)

MissingField(field) ==
    [kind |-> "error",
     error |-> "Missing required aerator field: " \o field,
     extra |-> "TypeError"]

\* the loop that builds the Aerator records, from entry i: the document it
\* returns early, or kind "none" when it ends
RECURSIVE aerator_loop(_, _)
aerator_loop(aerators_data, i) ==
    IF i > Len(aerators_data) THEN [kind |-> "none"]
    ELSE LET a == aerators_data[i]
         IN  IF first_missing(a, 1) # ""
             THEN MissingField(first_missing(a, 1))
             ELSE IF \E f \in {"sotr", "power_hp", "cost", "durability",
                               "maintenance"} : FloatRaises(a[f])
             THEN ErrorDoc("Invalid numeric value for aerator specifications",
                           "")
             ELSE aerator_loop(aerators_data, i + 1)

\* min_index keeping the last minimum
RECURSIVE min_index_last(_, _, _)
min_index_last(aerator_results, i, best) ==
    IF i > Len(aerator_results) THEN best
    ELSE IF aerator_results[i].total_annual_cost
              <= aerator_results[best].total_annual_cost
         THEN min_index_last(aerator_results, i + 1, i)
         ELSE min_index_last(aerator_results, i + 1, best)

\* min_index taking the greatest total_annual_cost
RECURSIVE min_index_greatest(_, _, _)
min_index_greatest(aerator_results, i, best) ==
    IF i > Len(aerator_results) THEN best
    ELSE IF aerator_results[i].total_annual_cost
              > aerator_results[best].total_annual_cost
         THEN min_index_greatest(aerator_results, i + 1, i)
         ELSE min_index_greatest(aerator_results, i + 1, best)

\* min(aerator_results, key=total_annual_cost): index of the first minimum
RECURSIVE min_index(_, _, _)
min_index(aerator_results, i, best) ==
    IF i > Len(aerator_results) THEN best
    ELSE IF aerator_results[i].total_annual_cost
              < aerator_results[best].total_annual_cost
         THEN min_index(aerator_results, i + 1, i)
         ELSE min_index(aerator_results, i + 1, best)

\* max(aerator_results, key=total_annual_cost): index of the first maximum
RECURSIVE max_index(_, _, _)
max_index(aerator_results, i, best) ==
    IF i > Len(aerator_results) THEN best
    ELSE IF aerator_results[i].total_annual_cost
              > aerator_results[best].total_annual_cost
         THEN max_index(aerator_results, i + 1, i)
         ELSE max_index(aerator_results, i + 1, best)

\* calculate_npv of the cash flows of annual_saving, [raised, value] with
\* value a float.  At an inflation_rate of NaN the cash flows are
\* annual_saving followed by NaN, no division raises, and the sum of the
\* discounted cash flows is NaN unless there is none
npv_of_saving(annual_saving, financial) ==
    IF financial.inflation_rate.k = "nan"
    THEN [raised |-> FALSE,
          value |->
              IF financial.horizon = 1 /\ annual_saving > NPV_SINGLE_THRESHOLD
              THEN Fin(NPV_SINGLE)
              ELSE IF financial.horizon <= 0 THEN Fin(0) ELSE NaN]
    ELSE TheOnly({[raised |-> npv.raised, value |-> Fin(npv.value)] :
                  npv \in
                      {calculate_npv(cash_flows, financial.discount_rate,
                                     financial.inflation_rate.v) :
                       cash_flows \in
                           {cash_flows_of(annual_saving,
                                          financial.inflation_rate.v,
                                          financial.horizon)}}})

\* calculate_irr of the cash flows of annual_saving.  At an inflation_rate
\* of NaN and a horizon above 1 the sum of the cash flows is NaN, which is
\* not <= 0, and the root finder, run on NaN, returns NaN, which is in
\* neither range: -100
irr_of_saving(additional_cost, annual_saving, financial, sotr_ratio, baseline_cost) ==
    IF financial.inflation_rate.k = "nan"
    THEN IF financial.horizon <= 1
         THEN calculate_irr(additional_cost,
                            cash_flows_of(annual_saving, 0, financial.horizon),
                            sotr_ratio, baseline_cost)
         ELSE IF additional_cost <= 0
         THEN IF baseline_cost.given /\ baseline_cost.v > 0
              THEN IF annual_saving <= 0
                   THEN [path |-> "return", value |-> 0]
                   ELSE [path |-> "return", value |-> -10000]
              ELSE [path |-> "return", value |-> saturating_irr(sotr_ratio)]
         ELSE [path |-> "return", value |-> -10000]
    ELSE TheOnly({calculate_irr(additional_cost, cash_flows, sotr_ratio,
                                baseline_cost) :
                  cash_flows \in
                      {cash_flows_of(annual_saving,
                                     financial.inflation_rate.v,
                                     financial.horizon)}})

\* calculate_profitability_k on a float npv_savings
profitability_k_of(npv_savings, additional_cost) ==
    IF npv_savings.k = "nan"
    THEN IF additional_cost <= 0 THEN Fin(0) ELSE NaN
    ELSE Fin(calculate_profitability_k(npv_savings.v, additional_cost))

\* calculate_relative_k on a float npv_savings: NaN is not <= 0
relative_k_of(npv_savings, additional_cost, sotr_ratio, baseline_cost) ==
    IF npv_savings.k = "nan"
    THEN IF ~baseline_cost.given \/ baseline_cost.v <= 0 THEN Fin(0) ELSE NaN
    ELSE Fin(calculate_relative_k(npv_savings.v, additional_cost, sotr_ratio,
                                  baseline_cost))

\* one pass of the loop over aerator_results: the record appended to
\* results, with "raised" when a calculate_npv call raises and "branch",
\* the set of metric functions the aerator is computed with
aerator_metrics(res, least_efficient, winner, financial, sotr_ratio) ==
    LET aerator == res.aerator
        annual_saving ==
            least_efficient.total_annual_cost - res.total_annual_cost
        additional_cost ==
            res.total_initial_cost - least_efficient.total_initial_cost
        npv_savings == npv_of_saving(annual_saving, financial)
        is_least == aerator.name = least_efficient.aerator.name
        winner_saving ==
            least_efficient.total_annual_cost - winner.total_annual_cost
        opportunity_cost ==
            IF is_least
            THEN npv_of_saving(winner_saving, financial)
            ELSE [raised |-> FALSE, value |-> Fin(0)]
        is_winner == aerator.name = winner.aerator.name
        payback_value ==
            IF is_winner
            THEN calculate_relative_payback(additional_cost, annual_saving,
                                            sotr_ratio)
            ELSE calculate_payback(additional_cost, annual_saving)
        baseline_cost == BaselineCost(least_efficient.total_initial_cost)
        winner_irr ==
            irr_of_saving(additional_cost, annual_saving, financial,
                          sotr_ratio, baseline_cost)
        roi_value ==
            IF is_winner
            THEN calculate_relative_roi(annual_saving, additional_cost,
                                        baseline_cost, sotr_ratio)
            ELSE calculate_roi(annual_saving, additional_cost)
        k_value ==
            IF npv_savings.raised THEN Fin(0)
            ELSE IF is_winner
            THEN relative_k_of(npv_savings.value, additional_cost, sotr_ratio,
                               baseline_cost)
            ELSE profitability_k_of(npv_savings.value, additional_cost)
    IN  [raised |-> npv_savings.raised \/ opportunity_cost.raised,
         branch |-> IF is_winner THEN "relative" ELSE "plain",
         name |-> aerator.name,
         num_aerators |-> res.num_aerators,
         total_power_hp |-> res.total_power_hp,
         total_initial_cost |-> res.total_initial_cost,
         annual_energy_cost |-> res.annual_energy_cost,
         annual_maintenance_cost |-> res.annual_maintenance_cost,
         annual_replacement_cost |-> res.annual_replacement_cost,
         total_annual_cost |-> res.total_annual_cost,
         cost_percent_revenue |-> res.cost_percent_revenue,
         npv_savings |-> npv_savings.value,
         payback_years |-> payback_value,
         roi_percent |-> roi_value,
         irr |-> winner_irr,
         profitability_k |-> k_value,
         aerators_per_ha |-> res.aerators_per_ha,
         hp_per_ha |-> res.hp_per_ha,
         sae |-> res.sae,
         cost_per_kg_o2 |-> res.cost_per_kg_o2,
         opportunity_cost |-> opportunity_cost.value]

\* replace_infinity(r._asdict()) on one record of results
replace_infinity_record(r) ==
    [name |-> r.name,
     num_aerators |-> r.num_aerators,
     total_power_hp |-> r.total_power_hp,
     total_initial_cost |-> r.total_initial_cost,
     annual_energy_cost |-> r.annual_energy_cost,
     annual_maintenance_cost |-> r.annual_maintenance_cost,
     annual_replacement_cost |-> r.annual_replacement_cost,
     total_annual_cost |-> r.total_annual_cost,
     cost_percent_revenue |-> r.cost_percent_revenue,
     npv_savings |-> replace_infinity(r.npv_savings).v,
     payback_years |-> replace_infinity(r.payback_years),
     roi_percent |-> r.roi_percent,
     irr |-> r.irr,
     profitability_k |-> replace_infinity(r.profitability_k).v,
     aerators_per_ha |-> r.aerators_per_ha,
     hp_per_ha |-> r.hp_per_ha,
     sae |-> r.sae,
     cost_per_kg_o2 |-> replace_infinity_milli(r.cost_per_kg_o2),
     opportunity_cost |-> replace_infinity(r.opportunity_cost).v]

\* d[key] = value on a dict, kept as the sequence of its items in insertion
\* order
dict_set(d, key, value) ==
    IF \E j \in 1..Len(d) : d[j].key = key
    THEN [j \in 1..Len(d) |->
             IF d[j].key = key THEN [key |-> key, value |-> value] ELSE d[j]]
    ELSE Append(d, [key |-> key, value |-> value])

\* calculate_equilibrium_price without max(0, scaled_price)
calculate_equilibrium_price_signed(total_annual_cost_non_winner, energy_cost_winner, maintenance_cost_winner, num_winner, durability_winner, sotr_ratio, baseline_cost) ==
    LET winner_cost_no_replacement ==
            energy_cost_winner + maintenance_cost_winner
        cost_difference ==
            total_annual_cost_non_winner - winner_cost_no_replacement
        base_price == <<cost_difference, durability_winner>>
        scaled_price ==
            IF baseline_cost.given /\ baseline_cost.v > 0
            THEN Sign(sotr_ratio[1])
                   * NatToInt(NatRoundDiv(
                         NatProd(base_price
                                   \o <<sotr_ratio[1], baseline_cost.v>>),
                         NatMul(NatOf(sotr_ratio[2]),
                                NatAdd(NatProd(<<num_winner, baseline_cost.v>>),
                                       NatProd(base_price)))))
            ELSE RoundRatio(base_price \o <<sotr_ratio[1]>>,
                            <<num_winner, sotr_ratio[2]>>)
    IN  IF cost_difference <= 0 \/ num_winner <= 0 \/ durability_winner <= 0
        THEN 0
        ELSE scaled_price

\* sotr_ratio is the pair <<numerator, denominator>>, denominator > 0;
\* base_price, cost_difference * durability_winner / num_winner, is kept as
\* the factors of its numerator; baseline_cost is NoBaseline or
\* BaselineCost(v)
calculate_equilibrium_price(total_annual_cost_non_winner, energy_cost_winner, maintenance_cost_winner, num_winner, durability_winner, sotr_ratio, baseline_cost) ==
    LET winner_cost_no_replacement ==
            energy_cost_winner + maintenance_cost_winner
        cost_difference ==
            total_annual_cost_non_winner - winner_cost_no_replacement
        base_price == <<cost_difference, durability_winner>>
        scaled_price ==
            IF baseline_cost.given /\ baseline_cost.v > 0
            THEN Sign(sotr_ratio[1])
                   * NatToInt(NatRoundDiv(
                         NatProd(base_price
                                   \o <<sotr_ratio[1], baseline_cost.v>>),
                         NatMul(NatOf(sotr_ratio[2]),
                                NatAdd(NatProd(<<num_winner, baseline_cost.v>>),
                                       NatProd(base_price)))))
            ELSE RoundRatio(base_price \o <<sotr_ratio[1]>>,
                            <<num_winner, sotr_ratio[2]>>)
    IN  IF cost_difference <= 0 \/ num_winner <= 0 \/ durability_winner <= 0
        THEN 0
        ELSE Max2(0, scaled_price)

\* equilibrium_prices after the first n passes of the loop over
\* aerator_results
RECURSIVE equilibrium_prices(_, _, _, _)
equilibrium_prices(aerator_results, winner, sotr_ratio, n) ==
    IF n = 0 THEN <<>>
    ELSE IF aerator_results[n].aerator.name = winner.aerator.name
    THEN equilibrium_prices(aerator_results, winner, sotr_ratio, n - 1)
    ELSE dict_set(equilibrium_prices(aerator_results, winner, sotr_ratio,
                                     n - 1),
                  aerator_results[n].aerator.name,
                  calculate_equilibrium_price(
                      aerator_results[n].total_annual_cost,
                      winner.annual_energy_cost,
                      winner.annual_maintenance_cost,
                      winner.num_aerators,
                      winner.aerator.durability,
                      sotr_ratio,
                      BaselineCost(winner.total_initial_cost)))

\* the returned document, or the exception of the first calculate_npv call
\* that raised
compare_document(farm, annual_revenue, results, prices, winner_name) ==
    IF \E i \in 1..Len(results) : results[i].raised
    THEN Raised("ZeroDivisionError")
    ELSE [kind |-> "result",
          tod |-> farm.tod,
          annual_revenue |-> annual_revenue,
          aeratorResults |->
              [i \in 1..Len(results) |-> replace_infinity_record(results[i])],
          winnerLabel |-> winner_name,
          equilibriumPrices |-> prices]

\* the part of compare_aerators after process_aerator: the returned document
\* and the choices made on the way
compare_ranked(farm, financial, annual_revenue, aerator_results) ==
    LET least_index == max_index(aerator_results, 1, 1)
        winner_index == min_index(aerator_results, 1, 1)
        least_efficient == aerator_results[least_index]
        winner == aerator_results[winner_index]
        sotr_ratio ==
            IF least_efficient.aerator.sotr > 0
            THEN <<winner.aerator.sotr, least_efficient.aerator.sotr>>
            ELSE <<1, 1>>
        made(results) ==
            [winner |-> winner_index,
             least_efficient |-> least_index,
             branch |-> [i \in 1..Len(results) |-> results[i].branch]]
    IN  TheOnly({[result |->
                      compare_document(farm, annual_revenue, results,
                          equilibrium_prices(aerator_results, winner,
                                             sotr_ratio,
                                             Len(aerator_results)),
                          winner.aerator.name),
                  calls |-> made(results)] :
                 results \in
                     {[i \in 1..Len(aerator_results) |->
                          aerator_metrics(aerator_results[i], least_efficient,
                                          winner, financial, sotr_ratio)]}})

\* the part of compare_aerators after validation
compare_valid(farm, financial, aerators) ==
    LET revenue == calculate_annual_revenue(farm)
        fallback ==
            IF farm.shrimp_price > EXTREME_PRICE
            THEN Widened(Big(1))
            ELSE FinWide(WideOf(<<100000000>>))
        processed(annual_revenue) ==
            TheOnly({compare_ranked(farm, financial, annual_revenue,
                                    aerator_results) :
                     aerator_results \in
                         {[i \in 1..Len(aerators) |->
                              process_aerator(aerators[i], farm, financial,
                                              annual_revenue)]}})
    IN  TheOnly({processed(annual_revenue) :
                 annual_revenue \in
                     {IF revenue.raised THEN fallback ELSE revenue.value}})

compare_aerators(d) ==
    LET farm_data == d.farm
        financial_data == d.financial
        aerators_data == IF d.has_aerators THEN d.aerators ELSE <<>>
        is_zero_sotr_test == any_zero(aerators_data, "sotr", 1)
        is_zero_durability_test == any_zero(aerators_data, "durability", 1)
        farm == FarmInput(farm_data)
        financial == FinancialInput(financial_data)
        loop == aerator_loop(aerators_data, 1)
        aerators == [i \in 1..Len(aerators_data) |-> Aerator(aerators_data[i])]
        only(doc) == [result |-> doc, calls |-> NoCalls]
    IN  IF too_few(aerators_data)
        THEN only(ErrorDoc("At least two aerators are required", ""))
        ELSE IF is_zero_sotr_test = "raise"
                \/ is_zero_durability_test = "raise"
        THEN only(ErrorDoc("Invalid numeric value for aerator specifications",
                           "JSONDecodeError"))
        ELSE IF \E f \in DOMAIN farm_data : FloatRaises(farm_data[f])
        THEN only(ErrorDoc("Invalid numeric value for farm inputs", ""))
        ELSE IF farm.tod <= 0
                /\ ~(is_zero_sotr_test = "true"
                     \/ is_zero_durability_test = "true")
        THEN only(ErrorDoc("TOD must be positive", ""))
        ELSE IF \E f \in DOMAIN financial_data : FloatRaises(financial_data[f])
        THEN only(ErrorDoc("Invalid numeric value for financial inputs", ""))
        ELSE IF loop.kind # "none"
        THEN only(loop)
        ELSE IF \A i \in 1..Len(aerators) : aerators[i].sotr = 0
        THEN only(ErrorDoc("At least one aerator must have positive SOTR", ""))
        ELSE compare_valid(farm, financial, aerators)

-----------------------------------------------------------------------------
(* The requests the model submits *)

\* largest number of entries of the 'aerators' list
MaxAerators == 2

FarmBase ==
    [tod |-> Num(100), farm_area_ha |-> Num(5), shrimp_price |-> Num(500),
     culture_days |-> Num(120), shrimp_density_kg_m3 |-> Num(10000000),
     pond_depth_m |-> Num(1)]

FinancialBase ==
    [energy_cost |-> Num(2), hours_per_night |-> Num(8),
     discount_rate |-> Num(100), inflation_rate |-> Num(24),
     horizon |-> Num(2), safety_margin |-> Num(0), temperature |-> Num(200)]

AeratorBase ==
    [name |-> Str("A"), sotr |-> Num(20), power_hp |-> Num(3),
     cost |-> Num(500), durability |-> Num(2), maintenance |-> Num(50)]

With(d, key, value) == [d EXCEPT ![key] = value]

FarmDocs ==
    {FarmBase,
     With(FarmBase, "tod", Num(-100)),
     With(FarmBase, "tod", Num(0)),
     With(FarmBase, "tod", Str("high")),
     With(FarmBase, "culture_days", Num(0)),
     With(FarmBase, "shrimp_density_kg_m3", InfValue)}

FinancialDocs ==
    {FinancialBase,
     With(FinancialBase, "inflation_rate", Num(-1000)),
     With(FinancialBase, "discount_rate", Num(-1000)),
     With(FinancialBase, "horizon", Num(0)),
     With(FinancialBase, "energy_cost", Str("cheap"))}

AeratorDocs ==
    {AeratorBase,
     With(AeratorBase, "name", Missing),
     With(AeratorBase, "name", Str("B")),
     With(AeratorBase, "sotr", Num(40)),
     With(AeratorBase, "sotr", Num(0)),
     With(AeratorBase, "sotr", Num(-10)),
     With(With(AeratorBase, "sotr", Num(0)), "name", Missing),
     With(AeratorBase, "durability", Num(0)),
     With(AeratorBase, "durability", Missing),
     With(AeratorBase, "sotr", Missing),
     With(AeratorBase, "power_hp", Missing),
     With(AeratorBase, "cost", Missing),
     With(With(AeratorBase, "power_hp", Missing), "cost", Missing),
     With(AeratorBase, "sotr", Str("fast")),
     With(AeratorBase, "cost", Str("free"))}

AeratorLists == UNION {[1..n -> AeratorDocs] : n \in 0..MaxAerators}

\* sample_request, the reference scenario
ReferenceRequest ==
    [farm |->
         [tod |-> Num(547), farm_area_ha |-> Num(1000),
          shrimp_price |-> Num(500), culture_days |-> Num(120),
          shrimp_density_kg_m3 |-> Num(3333333), pond_depth_m |-> Num(1)],
     financial |->
         [energy_cost |-> Num(5), hours_per_night |-> Num(8),
          discount_rate |-> Num(100), inflation_rate |-> Num(25),
          horizon |-> Num(10), safety_margin |-> Num(0),
          temperature |-> Num(315)],
     has_aerators |-> TRUE,
     aerators |->
         <<[name |-> Str("Aerator 1"), sotr |-> Num(19), power_hp |-> Num(3),
            cost |-> Num(70000), durability |-> Num(2),
            maintenance |-> Num(6500)],
           [name |-> Str("Aerator 2"), sotr |-> Num(35), power_hp |-> Num(3),
            cost |-> Num(90000), durability |-> Num(5),
            maintenance |-> Num(5000)]>>]

\* the reference scenario, and the documents of which one section differs
\* from the base document, or none
\* the reference scenario with a third aerator between the two
ThreeAeratorRequest ==
    [farm |-> ReferenceRequest.farm,
     financial |-> ReferenceRequest.financial,
     has_aerators |-> TRUE,
     aerators |->
         <<ReferenceRequest.aerators[1], ReferenceRequest.aerators[2],
           [name |-> Str("Aerator 3"), sotr |-> Num(27), power_hp |-> Num(3),
            cost |-> Num(70000), durability |-> Num(2),
            maintenance |-> Num(6500)]>>]

\* an inflation_rate of NaN: float("nan") is a float
NanInflationRequests ==
    {[farm |-> FarmBase,
      financial |-> With(With(FinancialBase, "inflation_rate", NanValue),
                         "horizon", Num(h)),
      has_aerators |-> TRUE,
      aerators |-> <<AeratorBase, a>>] : a \in AeratorDocs, h \in {1, 2}}

\* culture_days 0 at a shrimp price above EXTREME_PRICE
FallbackRequests ==
    {[farm |-> With(With(FarmBase, "culture_days", Num(0)),
                    "shrimp_price", Num(20000)),
      financial |-> FinancialBase, has_aerators |-> TRUE,
      aerators |-> <<AeratorBase, a>>] : a \in AeratorDocs}

Requests ==
    {ReferenceRequest, ThreeAeratorRequest}
    \cup
    FallbackRequests
    \cup
    NanInflationRequests
    \cup
    {[farm |-> f, financial |-> FinancialBase, has_aerators |-> TRUE,
      aerators |-> a] : f \in FarmDocs, a \in AeratorLists}
    \cup
    {[farm |-> FarmBase, financial |-> n, has_aerators |-> TRUE,
      aerators |-> a] : n \in FinancialDocs, a \in AeratorLists}
    \cup
    {[farm |-> f, financial |-> n, has_aerators |-> FALSE,
      aerators |-> <<>>] : f \in FarmDocs, n \in FinancialDocs}

-----------------------------------------------------------------------------
(* The state machine: a request is received and compare_aerators answers *)

NoData ==
    [farm |-> FarmBase, financial |-> FinancialBase, has_aerators |-> FALSE,
     aerators |-> <<>>]

Init ==
    /\ data = NoData
    /\ pc = "idle"
    /\ result = [kind |-> "none"]
    /\ calls = NoCalls

CompareAerators(d) ==
    /\ pc = "idle"
    /\ data' = d
    /\ \E answer \in {compare_aerators(d)} :
           /\ result' = answer.result
           /\ calls' = answer.calls
    /\ pc' = "done"

Next == \E d \in Requests : CompareAerators(d)

Spec == Init /\ [][Next]_vars

-----------------------------------------------------------------------------
(* process_aerator on its own: the sizing and cost of one aerator *)

SizingAerators ==
    [name : {"A"}, sotr : {-10, 0, 1, 20, 40}, power_hp : {0, 2},
     cost : {0, 100}, durability : {0, 2}, maintenance : {50}]

SizingFarms ==
    [tod : {-100, 0, 100}, farm_area_ha : {0, 5, 2 * LARGE_AREA_HA},
     shrimp_price : {500}, culture_days : {120},
     shrimp_density_kg_m3 : {Fin(10000000)}, pond_depth_m : {1}]

SizingFinancials ==
    [energy_cost : {0, 2}, hours_per_night : {8}, discount_rate : {100},
     inflation_rate : {Fin(25)}, horizon : {2},
     safety_margin : {-200, 0, 50},
     temperature : {-300, 200, 315}]

\* the amounts of a farm above LARGE_AREA_HA fit 32-bit integers only when
\* energy is free
SizingInputs ==
    {in \in [aerator : SizingAerators, farm : SizingFarms,
             financial : SizingFinancials] :
        in.farm.farm_area_ha > LARGE_AREA_HA => in.financial.energy_cost = 0}

ProcessAerator(in) ==
    /\ pc = "idle"
    /\ data' = in
    /\ result' = process_aerator(in.aerator, in.farm, in.financial,
                                 calculate_annual_revenue(in.farm).value)
    /\ pc' = "sized"
    /\ UNCHANGED calls

NextSizing == \E in \in SizingInputs : ProcessAerator(in)

SpecSizing == Init /\ [][NextSizing]_vars

-----------------------------------------------------------------------------
(* process_aerator on two aerators that differ in sotr only *)

\* sotr in tenths
PairSotrs == {-10, 0, 1, 14, 15, 19, 35}

PairAerators ==
    [name : {"A"}, sotr : PairSotrs, power_hp : {3}, cost : {0, 10000},
     durability : {2}, maintenance : {6500}]

PairFarms ==
    [tod : {-100, 0, 547}, farm_area_ha : {0, 5, 100},
     shrimp_price : {500}, culture_days : {120},
     shrimp_density_kg_m3 : {Fin(10000000)}, pond_depth_m : {1}]

PairFinancials ==
    [energy_cost : {5}, hours_per_night : {8}, discount_rate : {100},
     inflation_rate : {Fin(25)}, horizon : {2},
     safety_margin : {-150, 0, 50},
     temperature : {-300, 200, 315}]

ProcessAeratorPair(aerator, farm, financial, sotr) ==
    /\ pc = "idle"
    /\ sotr > aerator.sotr
    /\ data' = [aerator |-> aerator, farm |-> farm, financial |-> financial,
                sotr |-> sotr]
    /\ result' =
           [lower |-> process_aerator(aerator, farm, financial,
                                      calculate_annual_revenue(farm).value),
            higher |-> process_aerator([aerator EXCEPT !.sotr = sotr], farm,
                                       financial,
                                       calculate_annual_revenue(farm).value)]
    /\ pc' = "pair"
    /\ UNCHANGED calls

NextPair ==
    \E aerator \in PairAerators, farm \in PairFarms,
       financial \in PairFinancials, sotr \in PairSotrs :
        ProcessAeratorPair(aerator, farm, financial, sotr)

SpecPair == Init /\ [][NextPair]_vars

-----------------------------------------------------------------------------
(* replace_infinity on its own, on structures of dicts, lists and scalars *)

\* A Python object: t is its type, x the value of a float (finite values in
\* thousandths), n of an int, s of a str, items the items of a list, or the
\* [key, value] items of a dict in insertion order.
FloatObj(x) == [t |-> "float", x |-> x, n |-> 0, s |-> "", items |-> <<>>]

IntObj(n) == [t |-> "int", x |-> Fin(0), n |-> n, s |-> "", items |-> <<>>]

StrObj(s) == [t |-> "str", x |-> Fin(0), n |-> 0, s |-> s, items |-> <<>>]

ListObj(items) ==
    [t |-> "list", x |-> Fin(0), n |-> 0, s |-> "", items |-> items]

DictObj(items) ==
    [t |-> "dict", x |-> Fin(0), n |-> 0, s |-> "", items |-> items]

\* str(k_raw) of a key that is an int or a str
str(k_raw) == IF k_raw.t = "int" THEN StrObj(ToString(k_raw.n)) ELSE k_raw

\* the isinstance(obj, float) branch, on a float of thousandths
replace_infinity_float(x) ==
    CASE x.k = "inf" /\ x.v > 0 -> Big(1)
      [] x.k = "inf" /\ x.v < 0 -> Big(-1)
      [] x.k = "nan" -> Fin(0)
      [] x.k = "big" -> x
      [] OTHER -> Fin(RoundDiv(x.v, 10) * 10)

RECURSIVE replace_infinity_obj(_)
RECURSIVE replace_infinity_items(_, _, _)

\* replace_infinity_obj that returns a list as it is
replace_infinity_obj_shallow(obj) ==
    CASE obj.t = "dict" ->
             DictObj(replace_infinity_items(obj.items, 1, <<>>))
      [] obj.t = "list" -> obj
      [] obj.t = "float" -> FloatObj(replace_infinity_float(obj.x))
      [] OTHER -> obj

\* the loop over obj.items() from item i on: result_dict[str(k_raw)] =
\* replace_infinity(v_raw)
replace_infinity_items(items, i, result_dict) ==
    IF i > Len(items) THEN result_dict
    ELSE replace_infinity_items(
             items, i + 1,
             dict_set(result_dict, str(items[i].key),
                      replace_infinity_obj(items[i].value)))

\* replace_infinity(obj)
replace_infinity_obj(obj) ==
    CASE obj.t = "dict" ->
             DictObj(replace_infinity_items(obj.items, 1, <<>>))
      [] obj.t = "list" ->
             ListObj([j \in 1..Len(obj.items) |->
                         replace_infinity_obj(obj.items[j])])
      [] obj.t = "float" -> FloatObj(replace_infinity_float(obj.x))
      [] OTHER -> obj

\* the number of objects in obj
RECURSIVE Size(_)
RECURSIVE SizeFrom(_, _, _)
SizeFrom(items, i, keyed) ==
    IF i > Len(items) THEN 0
    ELSE Size(IF keyed THEN items[i].value ELSE items[i])
           + SizeFrom(items, i + 1, keyed)

Size(obj) ==
    CASE obj.t = "dict" -> 1 + SizeFrom(obj.items, 1, TRUE)
      [] obj.t = "list" -> 1 + SizeFrom(obj.items, 1, FALSE)
      [] OTHER -> 1

MaxSize == 3

Leaves ==
    {FloatObj(Fin(1234)), FloatObj(Fin(-6)), FloatObj(PosInf),
     FloatObj(NegInf), FloatObj(NaN), IntObj(7), StrObj("x")}

Keys == {StrObj("1"), IntObj(1), StrObj("a")}

MakeLeaf(x) ==
    /\ pc = "idle"
    /\ data' = x
    /\ pc' = "built"
    /\ UNCHANGED <<result, calls>>

WrapList ==
    /\ pc = "built"
    /\ Size(data) < MaxSize
    /\ data' = ListObj(<<data>>)
    /\ UNCHANGED <<pc, result, calls>>

WrapDict(k) ==
    /\ pc = "built"
    /\ Size(data) < MaxSize
    /\ data' = DictObj(<<[key |-> k, value |-> data]>>)
    /\ UNCHANGED <<pc, result, calls>>

ListAppend(x) ==
    /\ pc = "built"
    /\ data.t = "list"
    /\ Size(data) < MaxSize
    /\ data' = ListObj(Append(data.items, x))
    /\ UNCHANGED <<pc, result, calls>>

DictSet(k, x) ==
    /\ pc = "built"
    /\ data.t = "dict"
    /\ Size(data) < MaxSize
    /\ data' = DictObj(dict_set(data.items, k, x))
    /\ UNCHANGED <<pc, result, calls>>

ReplaceInfinity ==
    /\ pc = "built"
    /\ result' = replace_infinity_obj(data)
    /\ pc' = "once"
    /\ UNCHANGED <<data, calls>>

ReplaceInfinityAgain ==
    /\ pc = "once"
    /\ data' = result
    /\ result' = replace_infinity_obj(result)
    /\ pc' = "twice"
    /\ UNCHANGED calls

NextReplace ==
    \/ \E x \in Leaves : MakeLeaf(x)
    \/ WrapList
    \/ \E k \in Keys : WrapDict(k)
    \/ \E x \in Leaves : ListAppend(x)
    \/ \E k \in Keys, x \in Leaves : DictSet(k, x)
    \/ ReplaceInfinity
    \/ ReplaceInfinityAgain

SpecReplace == Init /\ [][NextReplace]_vars

-----------------------------------------------------------------------------
(* newton_raphson, one pass of its loop at a time.  x, its steps and tol    *)
(* are in ten-millionths; f'(x) is in halves of 1e-10 and f(x) in the       *)
(* product of the two units, so that f(x) / f'(x) is in the unit of x.      *)

\* 1e-10, the bound below which the derivative counts as zero
DERIVATIVE_EPS == 2

\* a - b on floats
FloatSub(a, b) ==
    CASE a.k = "nan" \/ b.k = "nan" -> NaN
      [] a.k = "inf" /\ b.k = "inf" -> IF a.v = b.v THEN NaN ELSE a
      [] a.k = "inf" -> a
      [] b.k = "inf" -> [k |-> "inf", v |-> -b.v]
      [] OTHER -> Fin(a.v - b.v)

\* a / b on floats, b not zero
FloatDiv(a, b) ==
    CASE a.k = "nan" \/ b.k = "nan" -> NaN
      [] a.k = "inf" /\ b.k = "inf" -> NaN
      [] a.k = "inf" -> [k |-> "inf", v |-> a.v * Sign(b.v)]
      [] b.k = "inf" -> Fin(0)
      [] OTHER -> Fin(RoundDiv(a.v, b.v))

\* abs(a) < bound, false for NaN and the infinities
AbsBelow(a, bound) == a.k = "fin" /\ Abs(a.v) < bound

\* range(maxiter) that yields one value more
in_range_and_one_more(i, maxiter) == i <= maxiter

\* the loop 'for _ in range(maxiter)' has a pass left after i passes
in_range(i, maxiter) == i < maxiter

\* the body of the loop with the step-size test made first
loop_body_step_first(x, fx, fpx, tol) ==
    IF fpx.k = "fin" /\ fpx.v = 0
    THEN [returns |-> TRUE, x |-> Fin(0)]
    ELSE IF AbsBelow(FloatDiv(fx, fpx), tol)
    THEN [returns |-> TRUE, x |-> FloatSub(x, FloatDiv(fx, fpx))]
    ELSE IF AbsBelow(fpx, DERIVATIVE_EPS)
    THEN [returns |-> TRUE, x |-> Fin(0)]
    ELSE [returns |-> FALSE, x |-> FloatSub(x, FloatDiv(fx, fpx))]

\* the body of the loop, with fx = func(x) and fpx = func_prime(x):
\* whether it returns, and the value returned or the new x
loop_body(x, fx, fpx, tol) ==
    IF AbsBelow(fpx, DERIVATIVE_EPS)
    THEN [returns |-> TRUE, x |-> Fin(0)]
    ELSE [returns |-> AbsBelow(FloatDiv(fx, fpx), tol),
          x |-> FloatSub(x, FloatDiv(fx, fpx))]

MaxIter == 3

\* the values func and func_prime are found to have
FuncValues == {Fin(-120), Fin(0), Fin(12), PosInf}

PrimeValues == {Fin(0), Fin(1), Fin(2), Fin(-12), NaN}

NewtonRaphson(x0, tol, maxiter) ==
    /\ pc = "idle"
    /\ data' = [x0 |-> x0, tol |-> tol, maxiter |-> maxiter]
    /\ result' = [x |-> x0, passes |-> 0, fx |-> Fin(0), fpx |-> Fin(0),
                  before |-> x0]
    /\ calls' = [func |-> 0, func_prime |-> 0]
    /\ pc' = "loop"

NewtonPass(fx, fpx) ==
    /\ pc = "loop"
    /\ in_range(result.passes, data.maxiter)
    /\ calls' = [func |-> calls.func + 1,
                 func_prime |-> calls.func_prime + 1]
    /\ \E body \in {loop_body(result.x, fx, fpx, data.tol)} :
           /\ result' = [x |-> body.x, passes |-> result.passes + 1,
                         fx |-> fx, fpx |-> fpx, before |-> result.x]
           /\ pc' = IF body.returns THEN "returned" ELSE "loop"
    /\ UNCHANGED data

NewtonExhausted ==
    /\ pc = "loop"
    /\ ~in_range(result.passes, data.maxiter)
    /\ pc' = "exhausted"
    /\ UNCHANGED <<data, result, calls>>

NextNewton ==
    \/ \E x0 \in {Fin(0), Fin(1000000)}, tol \in {0, 10, 1000},
          maxiter \in 0..MaxIter :
           NewtonRaphson(x0, tol, maxiter)
    \/ \E fx \in FuncValues, fpx \in PrimeValues : NewtonPass(fx, fpx)
    \/ NewtonExhausted

\* the interpreter goes on running a call that has been made
SpecNewton == Init /\ [][NextNewton]_vars /\ WF_vars(NextNewton)

-----------------------------------------------------------------------------
(* The financial metrics on their own *)

MaxFlows == 3

\* the longest list of cash flows calculate_irr is called with
MaxIrrFlows == 2

\* amounts in hundredths; 20000000 is above NPV_SINGLE_THRESHOLD
FlowAmounts == {-100, 0, 700, 20000000}

RECURSIVE FlowLists(_)
FlowLists(n) ==
    IF n = 0 THEN {<<>>}
    ELSE FlowLists(n - 1)
           \cup {Append(s, x) : s \in {t \in FlowLists(n - 1) : Len(t) = n - 1},
                                x \in FlowAmounts}

\* rates in thousandths
MetricRates == {-1000, 0, 24, 100}

MetricInvestments == {-10000, -100, 0, 100, 3300, 70000}

MetricSavings == {-100, 0, 100, 700, 100000}

\* efficiency ratios numerator / denominator
MetricRatios ==
    {<<-2, 1>>, <<-1, 1>>, <<0, 1>>, <<1, 2>>, <<1, 1>>, <<3, 2>>, <<5, 2>>,
     <<3, 1>>, <<12, 1>>}

MetricBaselines ==
    {NoBaseline, BaselineCost(-100), BaselineCost(0), BaselineCost(10000)}

CalculateNpv(cash_flows, discount_rate, inflation_rate) ==
    /\ pc = "idle"
    /\ data' = [cash_flows |-> cash_flows, discount_rate |-> discount_rate,
                inflation_rate |-> inflation_rate]
    /\ result' = calculate_npv(cash_flows, discount_rate, inflation_rate)
    /\ pc' = "npv"
    /\ UNCHANGED calls

CalculatePayback(initial_investment, annual_saving) ==
    /\ pc = "idle"
    /\ data' = [initial_investment |-> initial_investment,
                annual_saving |-> annual_saving]
    /\ result' = calculate_payback(initial_investment, annual_saving)
    /\ pc' = "payback"
    /\ UNCHANGED calls

CalculateRelativePayback(initial_investment, annual_saving, sotr_ratio) ==
    /\ pc = "idle"
    /\ data' = [initial_investment |-> initial_investment,
                annual_saving |-> annual_saving, sotr_ratio |-> sotr_ratio]
    /\ result' = calculate_relative_payback(initial_investment, annual_saving,
                                            sotr_ratio)
    /\ pc' = "relative_payback"
    /\ UNCHANGED calls

CalculateIrr(initial_investment, cash_flows, sotr_ratio, baseline_cost) ==
    /\ pc = "idle"
    /\ data' = [initial_investment |-> initial_investment,
                cash_flows |-> cash_flows, sotr_ratio |-> sotr_ratio,
                baseline_cost |-> baseline_cost]
    /\ result' = calculate_irr(initial_investment, cash_flows, sotr_ratio,
                               baseline_cost)
    /\ pc' = "irr"
    /\ UNCHANGED calls

NextMetrics ==
    \/ \E cash_flows \in FlowLists(MaxFlows), discount_rate \in MetricRates,
          inflation_rate \in MetricRates :
           CalculateNpv(cash_flows, discount_rate, inflation_rate)
    \/ \E initial_investment \in MetricInvestments,
          annual_saving \in MetricSavings :
           CalculatePayback(initial_investment, annual_saving)
    \/ \E initial_investment \in MetricInvestments,
          annual_saving \in MetricSavings, sotr_ratio \in MetricRatios :
           CalculateRelativePayback(initial_investment, annual_saving,
                                    sotr_ratio)
    \/ \E initial_investment \in {-100, 0, 100},
          cash_flows \in FlowLists(MaxIrrFlows), sotr_ratio \in MetricRatios,
          baseline_cost \in MetricBaselines :
           CalculateIrr(initial_investment, cash_flows, sotr_ratio,
                        baseline_cost)

SpecMetrics == Init /\ [][NextMetrics]_vars

-----------------------------------------------------------------------------
(* The return and price metrics on their own *)

\* amounts in hundredths
PriceCosts == {0, 1000000, 20000000}

PriceEnergyCosts == {0, 400000}

PriceMaintenanceCosts == {0, 600000, 30000000}

PriceUnits == {-1, 0, 1, 3}

PriceDurabilities == {-1, 0, 2, 5}

ProfitSavings == {-100, 0, 500000, 3000000}

ProfitCosts == {-50000, -100, 0, 100, 60000}

CalculateEquilibriumPrice(total_annual_cost_non_winner, energy_cost_winner, maintenance_cost_winner, num_winner, durability_winner, sotr_ratio, baseline_cost) ==
    /\ pc = "idle"
    /\ data' = [total_annual_cost_non_winner |-> total_annual_cost_non_winner,
                energy_cost_winner |-> energy_cost_winner,
                maintenance_cost_winner |-> maintenance_cost_winner,
                num_winner |-> num_winner,
                durability_winner |-> durability_winner,
                sotr_ratio |-> sotr_ratio,
                baseline_cost |-> baseline_cost]
    /\ result' = calculate_equilibrium_price(
                     total_annual_cost_non_winner, energy_cost_winner,
                     maintenance_cost_winner, num_winner, durability_winner,
                     sotr_ratio, baseline_cost)
    /\ pc' = "equilibrium_price"
    /\ UNCHANGED calls

\* calculate_relative_k on two additional costs, everything else equal
CalculateRelativeK(npv_savings, additional_cost, other_cost, sotr_ratio, baseline_cost) ==
    /\ pc = "idle"
    /\ data' = [npv_savings |-> npv_savings,
                additional_cost |-> additional_cost,
                other_cost |-> other_cost,
                sotr_ratio |-> sotr_ratio,
                baseline_cost |-> baseline_cost]
    /\ result' = [k |-> calculate_relative_k(npv_savings, additional_cost,
                                             sotr_ratio, baseline_cost),
                  other |-> calculate_relative_k(npv_savings, other_cost,
                                                 sotr_ratio, baseline_cost)]
    /\ pc' = "relative_k"
    /\ UNCHANGED calls

CalculateRoi(annual_saving, initial_investment) ==
    /\ pc = "idle"
    /\ data' = [annual_saving |-> annual_saving,
                initial_investment |-> initial_investment]
    /\ result' = calculate_roi(annual_saving, initial_investment)
    /\ pc' = "roi"
    /\ UNCHANGED calls

CalculateRelativeRoi(annual_saving, initial_investment, baseline_cost, sotr_ratio) ==
    /\ pc = "idle"
    /\ data' = [annual_saving |-> annual_saving,
                initial_investment |-> initial_investment,
                baseline_cost |-> baseline_cost,
                sotr_ratio |-> sotr_ratio]
    /\ result' = calculate_relative_roi(annual_saving, initial_investment,
                                        baseline_cost, sotr_ratio)
    /\ pc' = "relative_roi"
    /\ UNCHANGED calls

CalculateProfitabilityK(npv_savings, additional_cost) ==
    /\ pc = "idle"
    /\ data' = [npv_savings |-> npv_savings,
                additional_cost |-> additional_cost]
    /\ result' = calculate_profitability_k(npv_savings, additional_cost)
    /\ pc' = "profitability_k"
    /\ UNCHANGED calls

NextProfit ==
    \/ \E total_annual_cost_non_winner \in PriceCosts,
          energy_cost_winner \in PriceEnergyCosts,
          maintenance_cost_winner \in PriceMaintenanceCosts,
          num_winner \in PriceUnits,
          durability_winner \in PriceDurabilities,
          sotr_ratio \in MetricRatios,
          baseline_cost \in MetricBaselines :
           CalculateEquilibriumPrice(
               total_annual_cost_non_winner, energy_cost_winner,
               maintenance_cost_winner, num_winner, durability_winner,
               sotr_ratio, baseline_cost)
    \/ \E npv_savings \in ProfitSavings, additional_cost \in ProfitCosts,
          other_cost \in ProfitCosts, sotr_ratio \in MetricRatios,
          baseline_cost \in MetricBaselines :
           CalculateRelativeK(npv_savings, additional_cost, other_cost,
                              sotr_ratio, baseline_cost)
    \/ \E annual_saving \in ProfitSavings, initial_investment \in ProfitCosts :
           CalculateRoi(annual_saving, initial_investment)
    \/ \E annual_saving \in ProfitSavings, initial_investment \in ProfitCosts,
          baseline_cost \in MetricBaselines, sotr_ratio \in MetricRatios :
           CalculateRelativeRoi(annual_saving, initial_investment,
                                baseline_cost, sotr_ratio)
    \/ \E npv_savings \in ProfitSavings, additional_cost \in ProfitCosts :
           CalculateProfitabilityK(npv_savings, additional_cost)

SpecProfit == Init /\ [][NextProfit]_vars

-----------------------------------------------------------------------------
(* Properties *)

AeratorsData == IF data.has_aerators THEN data.aerators ELSE <<>>

Returned == pc = "done"

Succeeded == pc = "done" /\ result.kind = "result"

NumAerators == Len(AeratorsData)

\* every value supplied in the document is a finite number (names apart)
IsNumber(x) == x.t \in {"num", "missing"}

AllNumeric ==
    /\ \A f \in DOMAIN data.farm : IsNumber(data.farm[f])
    /\ \A f \in DOMAIN data.financial : IsNumber(data.financial[f])
    /\ \A i \in 1..NumAerators :
          \A f \in DOMAIN AeratorsData[i] \ {"name"} :
              IsNumber(AeratorsData[i][f])

Lacks(i) ==
    \E f \in {"sotr", "power_hp", "cost"} : AeratorsData[i][f].t = "missing"

\* a.get(key, 1) is the number 0
IsZero(i, key) == AeratorsData[i][key] = Num(0)

CostOf(i) == result.aeratorResults[i].total_annual_cost

UnitsOf(i) == result.aeratorResults[i].num_aerators

Relative == {i \in 1..NumAerators : calls.branch[i] = "relative"}

\* C1: in a successful comparison exactly one aerator is computed with the
\* relative variants, it is an aerator of minimum total_annual_cost, and
\* every other aerator is computed with the plain variants, also when
\* aerators share a name.
C1_ExactlyOneRelative ==
    Succeeded =>
        /\ Cardinality(Relative) = 1
        /\ \A i \in Relative : \A j \in 1..NumAerators : CostOf(i) <= CostOf(j)
        /\ \A i \in (1..NumAerators) \ Relative : calls.branch[i] = "plain"

C3_NeverRaises == Returned => result.kind \in {"result", "error"}

\* C4: every numeric value of a successful result is finite.
C4_AllFinite ==
    Succeeded =>
        /\ IsFinite(result.annual_revenue)
        /\ \A i \in 1..NumAerators :
              IsFinite(result.aeratorResults[i].payback_years)

\* C5: with fewer than 2 aerators (or none given) the answer is exactly the
\* error "At least two aerators are required", whatever else is wrong with
\* the document.
C5_TooFewFirst ==
    (Returned /\ NumAerators < 2) =>
        result = ErrorDoc("At least two aerators are required", "")

\* a single aerator without its cost, on a farm whose tod is no number
C5_Witness ==
    /\ Returned
    /\ NumAerators = 1
    /\ AeratorsData[1].cost.t = "missing"
    /\ data.farm.tod.t = "str"
    /\ result = ErrorDoc("At least two aerators are required", "")

FirstLacking == CHOOSE i \in 1..NumAerators :
                    Lacks(i) /\ \A j \in 1..(i - 1) : ~Lacks(j)

FirstLackingField ==
    LET a == AeratorsData[FirstLacking]
    IN  IF a.sotr.t = "missing" THEN "sotr"
        ELSE IF a.power_hp.t = "missing" THEN "power_hp" ELSE "cost"

\* C6: with at least 2 aerators, numeric values and TOD > 0, an aerator
\* without sotr, power_hp or cost gives the error that names the first
\* missing field (in that order) of the first such aerator, and no result.
C6_MissingFieldNamed ==
    (/\ Returned
     /\ NumAerators >= 2
     /\ AllNumeric
     /\ data.farm.tod.v > 0
     /\ \E i \in 1..NumAerators : Lacks(i)) =>
        /\ result.kind = "error"
        /\ result.error
             = "Missing required aerator field: " \o FirstLackingField

\* the first aerator lacks power_hp and cost, and power_hp is named
C6_Witness ==
    /\ Returned
    /\ NumAerators >= 2
    /\ AllNumeric
    /\ data.farm.tod.v > 0
    /\ AeratorsData[1].power_hp.t = "missing"
    /\ AeratorsData[1].cost.t = "missing"
    /\ result.kind = "error"
    /\ result.error = "Missing required aerator field: power_hp"

TodError == result.kind = "error" /\ result.error = "TOD must be positive"

\* C7 as stated: with at least 2 aerators, numeric inputs and TOD <= 0 the
\* error is "TOD must be positive" unless every aerator has zero SOTR or
\* zero durability.
C7_UnlessEvery ==
    (/\ Returned
     /\ NumAerators >= 2
     /\ AllNumeric
     /\ data.farm.tod.v <= 0
     /\ ~(\A i \in 1..NumAerators :
             IsZero(i, "sotr") \/ IsZero(i, "durability"))) =>
        TodError

\* C7 amended: with at least 2 aerators, numeric inputs and TOD <= 0 the
\* error is "TOD must be positive" exactly when no aerator has zero SOTR
\* and no aerator has zero durability.
C7_UnlessSome ==
    (/\ Returned
     /\ NumAerators >= 2
     /\ AllNumeric
     /\ data.farm.tod.v <= 0) =>
        (TodError <=>
            ~(\E i \in 1..NumAerators :
                 IsZero(i, "sotr") \/ IsZero(i, "durability")))

\* TOD <= 0, one aerator of two has zero SOTR, and the comparison is not
\* rejected for its TOD
C7_Witness ==
    /\ Returned
    /\ NumAerators = 2
    /\ AllNumeric
    /\ data.farm.tod.v <= 0
    /\ IsZero(1, "sotr")
    /\ ~IsZero(2, "sotr")
    /\ ~IsZero(2, "durability")
    /\ ~TodError

\* C8: an otherwise valid input in which no aerator has a positive SOTR gets
\* the error "At least one aerator must have positive SOTR"; a successful
\* result has an aerator with SOTR > 0.
C8_PositiveSotr ==
    /\ (/\ Returned
        /\ NumAerators >= 2
        /\ AllNumeric
        /\ data.farm.tod.v > 0
        /\ \A i \in 1..NumAerators : ~Lacks(i) /\ AeratorsData[i].sotr.v <= 0)
       => (/\ result.kind = "error"
           /\ result.error = "At least one aerator must have positive SOTR")
    /\ Succeeded => \E i \in 1..NumAerators : AeratorsData[i].sotr.v > 0

\* C10: an aerator with OTR_T <= 0 and unit count 0 is not the winner of a
\* comparison that has an aerator with a positive unit count, and
\* winnerLabel is not its name.
C10_ZeroSotrNeverWins ==
    (Succeeded /\ \E j \in 1..NumAerators : UnitsOf(j) > 0) =>
        \A i \in 1..NumAerators :
            (AeratorsData[i].sotr.v <= 0 /\ UnitsOf(i) = 0) =>
                /\ calls.winner # i
                /\ result.winnerLabel # result.aeratorResults[i].name

Sized == pc = "sized"

ZeroDerived ==
    /\ result.num_aerators = 0
    /\ result.total_power_hp = 0
    /\ result.total_initial_cost = 0
    /\ result.annual_energy_cost = 0
    /\ result.annual_maintenance_cost = 0
    /\ result.annual_replacement_cost = 0
    /\ result.total_annual_cost = 0

OtrT == calculate_otr_t(data.aerator.sotr, data.financial.temperature)

-----------------------------------------------------------------------------
(* Rounding of the reported amounts *)

\* cost_per_kg_o2 as process_aerator computes it for aerator i, in
\* thousandths: energy_cost / SAE to three decimals, 0 when SAE <= 0
CostPerKgOf(i) ==
    LET aerator == Aerator(AeratorsData[i])
        sae == calculate_sae(aerator.sotr, aerator.power_hp)
    IN  IF sae > 0
        THEN RoundDiv(FinancialInput(data.financial).energy_cost * 1000, sae)
        ELSE 0

\* C11: in every record of aeratorResults cost_per_kg_o2 is reported to
\* three decimals: it equals energy_cost / SAE rounded to three decimals
\* (0 when SAE <= 0).  (The record holds hundredths, CostPerKgOf
\* thousandths.)
C11_CostPerKgThreeDecimals ==
    Succeeded =>
        \A i \in 1..NumAerators :
            result.aeratorResults[i].cost_per_kg_o2 * 10 = CostPerKgOf(i)

-----------------------------------------------------------------------------
(* The financial metrics *)

\* C12: whenever inflation_rate and discount_rate are equal, calculate_npv
\* returns exactly the sum of the cash flows, whatever their number and
\* magnitude.
C12_EqualRatesSum ==
    (pc = "npv" /\ data.inflation_rate = data.discount_rate) =>
        /\ ~result.raised
        /\ result.value = SumSeq(data.cash_flows)

\* the call that has just returned is calculate_payback, or
\* calculate_relative_payback
PaybackCall == pc \in {"payback", "relative_payback"}

\* |payback * annual_saving - initial_investment|, in ten-thousandths
\* (payback is held in hundredths of a year, the amounts in hundredths)
PaybackGap == Abs(result.v * data.annual_saving - 100 * data.initial_investment)

\* C13 as stated: whenever the payback is finite and annual_saving > 0,
\* payback * annual_saving differs from initial_investment by at most 0.01,
\* for both functions and every efficiency ratio.
C13_RoundTripHundredth ==
    (PaybackCall /\ data.annual_saving > 0 /\ IsFinite(result)) =>
        PaybackGap <= 100

\* C13: the payback is initial_investment / annual_saving rounded to two
\* decimals: whenever annual_saving > 0, and for
\* calculate_relative_payback initial_investment >= 0,
\* payback * annual_saving differs from initial_investment by at most
\* 0.005 * annual_saving.
C13_RoundTripHalfHundredthOfSaving ==
    (/\ PaybackCall
     /\ data.annual_saving > 0
     /\ pc = "relative_payback" => data.initial_investment >= 0) =>
        /\ IsFinite(result)
        /\ 2 * PaybackGap <= data.annual_saving

\* a payback that is not the exact quotient has been returned by
\* calculate_payback
C13_Witness ==
    /\ pc = "payback"
    /\ data.annual_saving > 0
    /\ IsFinite(result)
    /\ PaybackGap > 100

-----------------------------------------------------------------------------
(* Monotonicity of the sizing in sotr *)

\* the aerator with the higher sotr needs no more units, and at a unit cost
\* >= 0 costs no more to buy
NoMoreUnits ==
    /\ result.higher.num_aerators <= result.lower.num_aerators
    /\ data.aerator.cost >= 0 =>
           result.higher.total_initial_cost <= result.lower.total_initial_cost

-----------------------------------------------------------------------------
(* Output normalisation *)

\* no float in obj is infinite or NaN, every finite one has two decimals,
\* and every key of a dict is a str
RECURSIVE Normalised(_)
Normalised(obj) ==
    CASE obj.t = "dict" ->
             \A j \in 1..Len(obj.items) :
                 obj.items[j].key.t = "str" /\ Normalised(obj.items[j].value)
      [] obj.t = "list" ->
             \A j \in 1..Len(obj.items) : Normalised(obj.items[j])
      [] obj.t = "float" ->
             \/ obj.x.k = "big"
             \/ obj.x.k = "fin" /\ obj.x.v % 10 = 0
      [] OTHER -> TRUE

\* what replace_infinity makes of the float x: 1e12 of +inf, -1e12 of -inf,
\* 0.00 of NaN, and the value to two decimals of any other
LeafReplaced(x, y) ==
    CASE x.k = "inf" /\ x.v > 0 -> y = Big(1)
      [] x.k = "inf" /\ x.v < 0 -> y = Big(-1)
      [] x.k = "nan" -> y = Fin(0)
      [] OTHER -> y.k = "fin" /\ y.v % 10 = 0 /\ 2 * Abs(y.v - x.v) <= 10

\* C15: replace_infinity applied to its own result returns that result
\* unchanged, and after one application no float at any depth is infinite
\* or NaN: +inf has become 1e12, -inf -1e12, NaN 0.00, and every other float
\* is rounded to two decimals.
C15_IdempotentAndFinite ==
    /\ pc = "twice" => result = data
    /\ pc \in {"once", "twice"} => Normalised(result)
    /\ (pc = "once" /\ data.t = "float") =>
           result.t = "float" /\ LeafReplaced(data.x, result.x)
    /\ (pc = "once" /\ data.t = "list" /\ data.items[1].t = "float") =>
           LeafReplaced(data.items[1].x, result.items[1].x)

\* replace_infinity has been applied twice to a dict that held a list with
\* an infinite float
C15_Witness ==
    /\ pc = "twice"
    /\ data.t = "dict"
    /\ data.items[1].value.t = "list"
    /\ data.items[1].value.items[1] = FloatObj(Big(1))
    /\ result = data

-----------------------------------------------------------------------------
(* The reference scenario *)

\* C16: for the reference scenario compare_aerators returns a result and no
\* error, the second aerator has the strictly lower total_annual_cost, and
\* winnerLabel is the second aerator's name.
C16_ReferenceWinner ==
    (Returned /\ data = ReferenceRequest) =>
        /\ result.kind = "result"
        /\ CostOf(2) < CostOf(1)
        /\ result.winnerLabel = Aerator(ReferenceRequest.aerators[2]).name

\* the reference scenario has been compared, and the second aerator won
C16_Witness ==
    /\ Succeeded
    /\ data = ReferenceRequest
    /\ result.winnerLabel = "Aerator 2"
    /\ calls.winner = 2

-----------------------------------------------------------------------------
(* The shape of the result *)

NameOf(i) == Aerator(AeratorsData[i]).name

\* the names that have an entry in equilibriumPrices
PricedNames ==
    {result.equilibriumPrices[j].key :
        j \in 1..Len(result.equilibriumPrices)}

\* C17: in every successful result aeratorResults has one record per input
\* aerator, in input order, and equilibriumPrices has one entry for each
\* aerator that is not the winner and none for the winner: one entry fewer
\* than there are aerators.
C17_OnePricePerNonWinner ==
    Succeeded =>
        /\ Len(result.aeratorResults) = NumAerators
        /\ \A i \in 1..NumAerators : result.aeratorResults[i].name = NameOf(i)
        /\ Len(result.equilibriumPrices) = NumAerators - 1
        /\ \A i \in 1..NumAerators :
               (NameOf(i) \in PricedNames) <=> (i # calls.winner)

-----------------------------------------------------------------------------
(* The relative payback of a cheaper aerator *)

\* C18: calculate_relative_payback, called with initial_investment < 0 and
\* annual_saving > 0, returns a strictly positive value for every
\* efficiency ratio, never 0.
C18_PositiveRelativePayback ==
    (/\ pc = "relative_payback"
     /\ data.initial_investment < 0
     /\ data.annual_saving > 0) =>
        GtZero(result)

-----------------------------------------------------------------------------
(* The IRR of an aerator that needs no investment *)

\* C19: calculate_irr, called with a total cash flow > 0 and
\* initial_investment <= 0, returns min(100 * efficiency ratio, 1000) in
\* every case where it is not true that both baseline_cost > 0 and
\* cash_flows[0] > 0, and seeks a root only when both are positive.
C19_SaturatingUnlessBothPositive ==
    (/\ pc = "irr"
     /\ SumSeq(data.cash_flows) > 0
     /\ data.initial_investment <= 0) =>
        IF /\ data.baseline_cost.given
           /\ data.baseline_cost.v > 0
           /\ data.cash_flows[1] > 0
        THEN result.path = "solve"
        ELSE /\ result.path = "return"
             /\ result.value = saturating_irr(data.sotr_ratio)

-----------------------------------------------------------------------------
(* The opportunity cost *)

\* C20: in every successful result opportunity_cost is 0.00 for every
\* aerator other than the baseline, the aerator of maximum total_annual_cost
\* that max() chose, and for the baseline it is the npv_savings of the
\* winner's record.
C20_OpportunityCostOfBaselineOnly ==
    Succeeded =>
        \A i \in 1..NumAerators :
            result.aeratorResults[i].opportunity_cost
              = (IF i = calls.least_efficient
                 THEN result.aeratorResults[calls.winner].npv_savings
                 ELSE 0)

-----------------------------------------------------------------------------
(* The root finder *)

\* newton_raphson has been called
NewtonCalled == pc \in {"loop", "returned", "exhausted"}

\* newton_raphson has returned
NewtonReturned == pc \in {"returned", "exhausted"}

\* C21: newton_raphson always terminates: it evaluates func and func_prime
\* at most maxiter times each and then returns a value, x0 itself when
\* maxiter = 0.
C21_BoundedAndTerminates ==
    /\ [](NewtonCalled =>
             /\ calls.func <= data.maxiter
             /\ calls.func_prime <= data.maxiter)
    /\ []((NewtonReturned /\ data.maxiter = 0) => result.x = data.x0)
    /\ <>NewtonReturned

\* every pass of the loop has been made without convergence, and the last
\* iterate returned
C21_Witness ==
    /\ pc = "exhausted"
    /\ data.maxiter > 1
    /\ calls.func = data.maxiter
    /\ result.x # data.x0

\* C23: in every pass of the loop, if |f'(x)| < 1e-10 newton_raphson
\* returns 0 at once, whatever the iterate; otherwise x becomes
\* x - f(x) / f'(x), and that x is returned as soon as the step is smaller
\* than the tolerance.
C23_DerivativeTestFirst ==
    (pc \in {"loop", "returned"} /\ result.passes > 0) =>
        IF AbsBelow(result.fpx, DERIVATIVE_EPS)
        THEN pc = "returned" /\ result.x = Fin(0)
        ELSE /\ result.x = FloatSub(result.before,
                                    FloatDiv(result.fx, result.fpx))
             /\ pc = "returned"
                  <=> AbsBelow(FloatDiv(result.fx, result.fpx), data.tol)

\* 0 has been returned for a derivative below 1e-10 in a pass whose step
\* would have been below the tolerance, after an earlier pass
C23_Witness ==
    /\ pc = "returned"
    /\ result.passes > 1
    /\ result.fpx = Fin(1)
    /\ AbsBelow(FloatDiv(result.fx, result.fpx), data.tol)
    /\ result.before # Fin(0)
    /\ result.x = Fin(0)


-----------------------------------------------------------------------------
(* The equilibrium price *)

WinnerRecord == result.aeratorResults[calls.winner]

BaselineRecord == result.aeratorResults[calls.least_efficient]

\* sotr_ratio of compare_aerators, from the request
SotrRatioOf ==
    IF Aerator(AeratorsData[calls.least_efficient]).sotr > 0
    THEN <<Aerator(AeratorsData[calls.winner]).sotr,
           Aerator(AeratorsData[calls.least_efficient]).sotr>>
    ELSE <<1, 1>>

\* the aerators that are not named as the winner and share their name with
\* no other aerator
SinglyPriced ==
    {i \in 1..NumAerators :
        /\ NameOf(i) # NameOf(calls.winner)
        /\ \A j \in 1..NumAerators : NameOf(j) = NameOf(i) => j = i}

PriceOf(i) ==
    LET j == CHOOSE j \in 1..Len(result.equilibriumPrices) :
                 result.equilibriumPrices[j].key = NameOf(i)
    IN  result.equilibriumPrices[j].value

\* C22: the equilibrium price reported for a non-winner is the base price
\* scaled by the efficiency ratio and damped by 1 / (1 + base_price /
\* baseline_cost), baseline_cost being the total initial cost of the
\* maximum-annual-cost aerator, the one given to the relative metrics
C22_PriceDampedByBaselineCost ==
    Succeeded =>
        \A i \in SinglyPriced :
            PriceOf(i)
              = calculate_equilibrium_price(
                    CostOf(i),
                    WinnerRecord.annual_energy_cost,
                    WinnerRecord.annual_maintenance_cost,
                    WinnerRecord.num_aerators,
                    Aerator(AeratorsData[calls.winner]).durability,
                    SotrRatioOf,
                    BaselineCost(BaselineRecord.total_initial_cost))

\* what the code does: the damping uses the winner's total initial cost
C22_PriceDampedByWinnerCost ==
    Succeeded =>
        \A i \in SinglyPriced :
            PriceOf(i)
              = calculate_equilibrium_price(
                    CostOf(i),
                    WinnerRecord.annual_energy_cost,
                    WinnerRecord.annual_maintenance_cost,
                    WinnerRecord.num_aerators,
                    Aerator(AeratorsData[calls.winner]).durability,
                    SotrRatioOf,
                    BaselineCost(WinnerRecord.total_initial_cost))


PriceCalled == pc = "equilibrium_price"

\* the cost difference of the call of calculate_equilibrium_price
PriceCostDifference ==
    data.total_annual_cost_non_winner
      - (data.energy_cost_winner + data.maintenance_cost_winner)

\* C24: calculate_equilibrium_price returns 0 when the cost difference, the
\* winner's unit count or the winner's durability is not positive, and never
\* returns a negative price, whatever the efficiency ratio and baseline_cost
C24_PriceZeroOrPositive ==
    PriceCalled =>
        /\ result >= 0
        /\ (PriceCostDifference <= 0 \/ data.num_winner <= 0
              \/ data.durability_winner <= 0) => result = 0

\* a positive base price turned negative by the efficiency ratio is
\* reported as 0
C24_Witness ==
    /\ PriceCalled
    /\ PriceCostDifference > 0
    /\ data.num_winner > 0
    /\ data.durability_winner > 0
    /\ data.sotr_ratio[1] < 0
    /\ data.baseline_cost.given
    /\ data.baseline_cost.v > 0
    /\ result = 0

-----------------------------------------------------------------------------
(* The relative profitability index *)

RelativeKCalled == pc = "relative_k"

\* float(f"{(npv_savings / baseline_cost) * sotr_ratio:.2f}") of the call
RelativeKBase ==
    RoundRatio(<<data.npv_savings, 100, data.sotr_ratio[1]>>,
               <<data.baseline_cost.v, data.sotr_ratio[2]>>)

RelativeKDefined ==
    /\ data.npv_savings > 0
    /\ data.baseline_cost.given
    /\ data.baseline_cost.v > 0

\* C25: for npv_savings > 0, baseline_cost > 0 and a positive efficiency
\* ratio, calculate_relative_k does not increase with additional_cost: it is
\* the base value at 0, at most the base value above 0 and at least the base
\* value below 0; it is 0 when npv_savings <= 0 or baseline_cost is missing
\* or not positive
C25_RelativeKNonIncreasing ==
    RelativeKCalled =>
        /\ (RelativeKDefined /\ data.sotr_ratio[1] > 0) =>
              /\ data.additional_cost <= data.other_cost =>
                     result.k >= result.other
              /\ data.additional_cost = 0 => result.k = RelativeKBase
              /\ data.additional_cost > 0 => result.k <= RelativeKBase
              /\ data.additional_cost < 0 => result.k >= RelativeKBase
        /\ ~RelativeKDefined => result.k = 0

C25_Witness ==
    /\ RelativeKCalled
    /\ RelativeKDefined
    /\ data.sotr_ratio[1] > 0
    /\ data.additional_cost < 0
    /\ data.other_cost > 0
    /\ result.k > RelativeKBase
    /\ RelativeKBase > result.other
    /\ result.other > 0


-----------------------------------------------------------------------------
(* The revenue fallback *)

CultureDaysNotPositive ==
    /\ data.farm.culture_days.t = "num"
    /\ data.farm.culture_days.v <= 0

\* annual_revenue of the except clause: 1e12 above the extreme price, 1e6
\* otherwise
RevenueFallback ==
    IF FarmInput(data.farm).shrimp_price > EXTREME_PRICE
    THEN Widened(Big(1))
    ELSE FinWide(WideOf(<<100000000>>))

\* the request with the default culture_days in place of its own
WithCultureDays == [data EXCEPT !.farm.culture_days = Num(120)]

\* C26: calculate_annual_revenue raises for culture_days <= 0, before the
\* clamp of extreme values; compare_aerators then goes on with the fallback
\* revenue: a request that succeeds with culture_days 120 succeeds with
\* culture_days <= 0, annual_revenue is the fallback and every
\* cost_percent_revenue is computed against it
C26_RevenueFallbackOnCultureDays ==
    (Returned /\ CultureDaysNotPositive) =>
        /\ compare_aerators(WithCultureDays).result.kind = "result"
             => result.kind = "result"
        /\ result.kind = "result" =>
             /\ calculate_annual_revenue(FarmInput(data.farm)).raised
             /\ result.annual_revenue = RevenueFallback
             /\ \A i \in 1..NumAerators :
                    result.aeratorResults[i].cost_percent_revenue
                      = cost_percent(CostOf(i), RevenueFallback)

\* a successful result for culture_days 0 at a price above the extreme
\* price: the revenue is 1e12
C26_Witness ==
    /\ Succeeded
    /\ CultureDaysNotPositive
    /\ FarmInput(data.farm).shrimp_price > EXTREME_PRICE
    /\ result.annual_revenue = Widened(Big(1))
    /\ \E i \in 1..NumAerators : CostOf(i) > 0


-----------------------------------------------------------------------------
(* The record of the baseline *)

\* the first aerator of maximum total_annual_cost
FirstOfMaximumCost ==
    CHOOSE i \in 1..NumAerators :
        /\ \A j \in 1..NumAerators : CostOf(j) <= CostOf(i)
        /\ \A j \in 1..(i - 1) : CostOf(j) < CostOf(i)

\* C27: in a successful result the baseline, the first aerator of maximum
\* total_annual_cost, has npv_savings 0, roi_percent 0, profitability_k 0,
\* irr -100 and payback_years 1e12, in the plain and in the relative branch,
\* and no aerator has a negative annual saving against the baseline
C27_BaselineRecordIsNeutral ==
    Succeeded =>
        /\ calls.least_efficient = FirstOfMaximumCost
        /\ BaselineRecord.npv_savings = 0
        /\ BaselineRecord.roi_percent = 0
        /\ BaselineRecord.profitability_k = 0
        /\ BaselineRecord.irr = [path |-> "return", value |-> -10000]
        /\ BaselineRecord.payback_years = Big(1)
        /\ \A i \in 1..NumAerators :
               CostOf(calls.least_efficient) - CostOf(i) >= 0


-----------------------------------------------------------------------------
(* The sign of the unit count, of the payback and of the rate of return *)

\* cost, power_hp, maintenance and durability of every aerator are not
\* negative
NonNegativeSpecifications ==
    \A i \in 1..NumAerators :
        /\ Aerator(AeratorsData[i]).cost >= 0
        /\ Aerator(AeratorsData[i]).power_hp >= 0
        /\ Aerator(AeratorsData[i]).maintenance >= 0
        /\ Aerator(AeratorsData[i]).durability >= 0

\* C28: in a successful result num_aerators of every aerator is a whole
\* number that is not negative, and for specifications that are not negative
\* so are total_power_hp, total_initial_cost and the annual energy,
\* maintenance and replacement costs, also when TOD <= 0 is let through by an
\* aerator of zero SOTR or durability
C28_UnitCountNotNegative ==
    Succeeded =>
        \A i \in 1..NumAerators :
            /\ UnitsOf(i) >= 0
            /\ (NonNegativeSpecifications
                  /\ FinancialInput(data.financial).energy_cost >= 0
                  /\ FinancialInput(data.financial).hours_per_night >= 0) =>
                   /\ result.aeratorResults[i].total_power_hp >= 0
                   /\ result.aeratorResults[i].total_initial_cost >= 0
                   /\ result.aeratorResults[i].annual_energy_cost >= 0
                   /\ result.aeratorResults[i].annual_maintenance_cost >= 0
                   /\ result.aeratorResults[i].annual_replacement_cost >= 0


PaybackOf(i) == result.aeratorResults[i].payback_years

\* C29: in a successful result no aerator has a negative payback_years, not
\* even an aerator that is not the winner, costs less to buy than the
\* baseline and saves money every year
C29_PaybackNotNegative ==
    Succeeded => \A i \in 1..NumAerators : PaybackOf(i).v >= 0


\* C30: the value calculate_irr returns lies between -100 and 1000, for
\* every initial_investment, list of cash flows, efficiency ratio and
\* baseline_cost (checked where it returns without running the root finder)
C30_IrrInRange ==
    (pc = "irr" /\ result.path = "return") =>
        /\ result.value >= -10000
        /\ result.value <= 100000

=============================================================================
